---- MODULE Spec2Model ----
(***************************************************************************)
(* Batch job orchestration (ProcessJobUseCase) and the file-backed record  *)
(* store (FileSystemJobRepository / FileSystemDocumentRepository).         *)
(*                                                                         *)
(* Spec       one call of ProcessJobUseCase.execute on a new job, the      *)
(*            record store used at the level of whole save/find            *)
(*            operations, no I/O errors.                                   *)
(* SpecOrder  Spec on jobs of up to MaxLiveDocs documents, recording the   *)
(*            order in which the worker promises settle.                   *)
(* SpecLive   Spec on jobs of up to MaxLiveDocs documents, with weak       *)
(*            fairness of the next-state relation.                         *)
(* SpecUpload Spec beside one call of JobController.uploadDocuments.        *)
(* SpecRerun  Spec with up to MaxRuns consecutive calls on the same job.   *)
(* SpecFault  Spec plus I/O errors of the record store and output writer.  *)
(* SpecType   Spec with the job's extractionConfig.type drawn from the     *)
(*            supported types and an unsupported one.                      *)
(* SpecStore  overlapping save calls on a collection file, at the level of *)
(*            the lock marker and the file reads and writes.               *)
(* SpecWrite  SpecStore with update and delete calls beside save.          *)
(* SpecWriteFault  calls on one collection where a write may fail.         *)
(* SpecSaveFault  save calls whose read of the collection may fail.         *)
(* SpecReadRace  save calls beside one lock-free read, step by step.        *)
(* SpecLock   repeated save calls on one collection, with fairness.         *)
(* SpecRead   consecutive getAllJobs / getAllDocuments reads of a file     *)
(*            that may be missing, blank or not one JSON value.            *)
(* SpecReadWrite  SpecStore plus lock-free reads of the same files.        *)
(* SpecFinalize  writeResult calls followed by finalizeOutput.              *)
(* SpecOutputRerun  writeResults called repeatedly for one job.             *)
(* SpecOutput LocalOutputService: writeResults and writeResult on one job. *)
(* SpecChunk  Document.chunkContent applied to bounded contents.           *)
(* SpecChunkLong  chunkContent on longer contents with one boundary.        *)
(* SpecCombine  combineChunkResults applied to bounded chunk results.      *)
(* SpecEntity Job and ExtractionSchema: toJSON followed by fromJSON.       *)
(* SpecCreate CreateExtractionUseCase.execute on one request.              *)
(* SpecLimiter the rate limiters of the batches of one batch group.        *)
(*                                                                         *)
(* Indices are 1-based where the JavaScript source is 0-based; loop        *)
(* offsets (wave, sub) keep the source's 0-based values.                   *)
(***************************************************************************)
EXTENDS Integers, Sequences, FiniteSets, TLC

\* Bounds of the model
MaxDocs == 3
MaxBatchSize == 2
MaxConcBatches == 2
MaxConcWorkers == 2
MaxRetries == 1
MaxRuns == 2
MaxFaults == 1
MaxCallers == 3
MaxLines == 3
MaxReads == 2
MaxShardSize == 2
MaxLen == 7
MaxChunkSize == 6
MaxChunks == 3
MaxItems == 2
MaxLiveDocs == 2
MaxLongLen == 12
MaxRerunDocs == 2
MaxLongChunk == 11

VARIABLES
  cfg,        \* getConfig values read by processDocuments / processDocument
  jobRec,     \* the job's record in data/jobs.json
  docRec,     \* status of each document record in data/documents.json
  pc,         \* position of ProcessJobUseCase.execute
  jobMem,     \* the in-memory Job object of execute
  documents,  \* the resolved documents (execute, step 3)
  wave,       \* processDocuments: loop offset i over batches
  sub,        \* processBatch: loop offset i over the batch, per batch
  bres,       \* processBatch: results, per batch
  bdone,      \* processBatch promise settled, per batch
  wst,        \* worker position, per document
  attempt,    \* processDocument: loop variable attempt, per document
  wres,       \* value a worker promise is fulfilled with: 0 null, n>0 attempts
  results,    \* processDocuments: results
  error,      \* message of the error caught by execute
  ret,        \* value returned by execute, <<>> when none
  output,     \* metadata.json written by writeResults, <<>> when none
  runs,       \* number of execute calls that have returned or thrown
  calls,      \* number of execute calls the caller will still make
  tries,      \* history: attempts started per document in this run
  fails,      \* history: failed attempts per document in this run
  docRec0,    \* history: docRec when this run started
  wrote,      \* history: writeResults calls in this run
  found,      \* history: this run's first findById returned the job
  faults,     \* I/O errors the environment may still inject
  file,       \* SpecStore: content of each collection file
  lock,       \* SpecStore: lock marker of each collection exists
  op,         \* SpecStore: the call of each caller
  spc,        \* SpecStore: position of each caller
  sread,      \* SpecStore: the array a caller got from getAll
  waited,     \* SpecStore history: caller found the marker present
  sout,       \* SpecStore: how a caller's call ended: "", "ok", "notfound", "ioerror"
  backup,     \* backup copies made of each collection file
  reads,      \* SpecRead history: the getAll reads of each collection
  rpc,        \* SpecReadRace: where the lock-free read of jobs.json stands
  oin,        \* SpecOutput: the results the caller hands to the writer
  oshard,     \* SpecOutput: output.shardSize
  ofiles,     \* SpecOutput: shard files of the job directory, by index + 1
  ometa,      \* SpecOutput: metadata.json of the job directory, <<>> when none
  ostream,    \* SpecOutput: outputStreams entry of the job, <<>> when none
  owritten,   \* SpecOutput history: writeResult calls made
  orotated,   \* SpecOutput history: record counts at which the shard index moved
  ocomp,      \* SpecOutput: output.compressionEnabled (true by default)
  oret,       \* SpecFinalize: <<metadata finalizeOutput returned>>, <<>> before
  content,    \* SpecChunk: Document.content
  maxChunkSize, \* SpecChunk: argument maxChunkSize
  overlap,    \* SpecChunk: argument overlap
  chunks,     \* SpecChunk: the chunks pushed by chunkContent
  cpc,        \* SpecChunk: "call", "returned", or "looping" (no return)
  cstarts,    \* SpecChunk history: the value of start at each chunks.push
  chunkResults,   \* SpecCombine: argument chunkResults
  extractionType, \* SpecCombine: argument extractionType
  combined,   \* SpecCombine: value returned, <<>> before the call
  ekind,      \* SpecEntity: "job" or "schema"
  ent,        \* SpecEntity: the entity object
  eclock,     \* SpecEntity: the value Date.now() gives
  ejson,      \* SpecEntity: the object toJSON returned, <<>> before the call
  eback,      \* SpecEntity: the object fromJSON returned, <<>> before the call
  emarks,     \* SpecEntity history: mark calls made on the entity
  xreq,       \* SpecCreate: the request given to CreateExtractionUseCase.execute
  xpc,        \* SpecCreate: position of execute
  xtext,      \* SpecCreate: textContent
  extraction, \* SpecCreate: the Extraction entity, <<>> before it is created
  xsaved,     \* SpecCreate: the extractions the repository has saved
  xsvc,       \* SpecCreate history: how processExtraction ended, <<>> before
  xerr,       \* SpecCreate: message of the error execute threw
  lnow,       \* SpecLimiter: the value Date.now() gives, in ms
  linterval,  \* SpecLimiter: interval = 1000 / rateLimitPerSecond, in ms
  lbatch,     \* SpecLimiter: the batch each worker of the wave belongs to
  lastCall,   \* SpecLimiter: lastCall of the limiter of each batch
  lst,        \* SpecLimiter: worker position: "call", "sleep", "passed"
  lwake,      \* SpecLimiter: time a sleeping worker's timer is due
  lpassed,    \* SpecLimiter history: time each worker left the limiter
  track,      \* SpecOrder: the order of completion is recorded
  finished,   \* SpecOrder history: documents in the order their workers ended
  upc,        \* SpecUpload: position of JobController.uploadDocuments
  umem,       \* SpecUpload: the job object uploadDocuments holds, <<>> before
  uadded      \* SpecUpload history: the document ids uploadDocuments appended

procVars == <<cfg, jobRec, docRec, pc, jobMem, documents, wave, sub, bres, bdone,
              wst, attempt, wres, results, error, ret, output, runs, tries, fails,
              docRec0, wrote, found, faults, calls>>
storeVars == <<file, lock, op, spc, sread, waited, sout, backup, reads, rpc>>
outVars == <<oin, oshard, ofiles, ometa, ostream, owritten, orotated, ocomp, oret>>
chunkVars == <<content, maxChunkSize, overlap, chunks, cpc, cstarts>>
combVars == <<chunkResults, extractionType, combined>>
entVars == <<ekind, ent, eclock, ejson, eback, emarks>>
createVars == <<xreq, xpc, xtext, extraction, xsaved, xsvc, xerr>>
limVars == <<lnow, linterval, lbatch, lastCall, lst, lwake, lpassed>>
orderVars == <<track, finished>>
uploadVars == <<upc, umem, uadded>>
moreVars == <<entVars, createVars, limVars, orderVars, uploadVars>>
auxVars == <<outVars, chunkVars, combVars, moreVars>>
vars == <<procVars, storeVars, auxVars>>

Min(a, b) == IF a < b THEN a ELSE b

----------------------------------------------------------------------------
\* Documents and the job

Docs == 1..MaxDocs
\* An id referenced by a job that has no record in the Document collection
MissingId == MaxDocs + 1
\* The Document collection, in file order
DocCollection == [i \in 1..MaxDocs |-> i]

NoDocumentsMsg == "No documents found for job"
JobNotFoundMsg == "Job not found"
WriteFailedMsg == "write failed"
SaveFailedMsg == "save failed"

\* Mutant: markProcessing leaves the status alone
Job_markProcessingNoop(j) == j

\* Job.markProcessing
Job_markProcessing(j) == [j EXCEPT !.status = "processing"]
Job_markCompleted(j, result) == [j EXCEPT !.status = "completed", !.result = <<result>>]
Job_markFailed(j, msg) == [j EXCEPT !.status = "failed", !.error = msg]

\* FileSystemDocumentRepository.findByIds: the records of the collection whose
\* id is among ids, in collection order
findByIds(ids) == SelectSeq(DocCollection, LAMBDA d : d \in ids)

getDocumentsForJob(j) ==
  IF j.documentIds = {} THEN <<>> ELSE findByIds(j.documentIds)

\* Mutant: the empty check is missing
IsEmptyJobNever(docs) == FALSE

\* execute: documents.length === 0
IsEmptyJob(docs) == Len(docs) = 0

----------------------------------------------------------------------------
\* Batching

createBatches(docs, batchSize) ==
  [k \in 1..((Len(docs) + batchSize - 1) \div batchSize) |->
     SubSeq(docs, (k - 1) * batchSize + 1, Min(k * batchSize, Len(docs)))]

Batches == createBatches(documents, cfg.maxBatchSize)

\* Mutant: every remaining batch is started at once
BatchGroupUnbounded(i) ==
  {b \in 1..Len(Batches) : i < b}

\* batches.slice(i, i + maxConcurrentBatches), as batch indices
BatchGroup(i) ==
  {b \in 1..Len(Batches) : i < b /\ b <= i + cfg.maxConcurrentBatches}

\* batch.slice(i, i + maxConcurrentWorkers)
WorkerGroup(b, i) ==
  SubSeq(Batches[b], i + 1, Min(i + cfg.maxConcurrentWorkers, Len(Batches[b])))

Range(s) == {s[k] : k \in 1..Len(s)}

\* The documents whose worker promises are created when the batches of the
\* group starting at offset i begin
FirstWorkers(i) == UNION {Range(WorkerGroup(b, 0)) : b \in BatchGroup(i)}

\* Mutant: a null value is kept too
FulfilledAny(v) == v >= 0

\* processBatch keeps a settled worker's value when it is fulfilled and truthy
Fulfilled(v) == v > 0

\* Mutant: the 0-based loop variable is reported
AttemptsZeroBased(a) == a

\* processDocument: attempts: attempt + 1
AttemptsReported(a) == a + 1

\* Mutant: the values are collected in the order the workers ended
CollectByCompletion(group) ==
  LET kept == SelectSeq(finished, LAMBDA d : d \in Range(group) /\ Fulfilled(wres[d]))
  IN  [k \in 1..Len(kept) |-> [documentId |-> kept[k], attempts |-> wres[kept[k]]]]

\* processBatch: the values collected from a settled worker group, in group order
Collect(group) ==
  LET kept == SelectSeq(group, LAMBDA d : Fulfilled(wres[d]))
  IN  [k \in 1..Len(kept) |-> [documentId |-> kept[k], attempts |-> wres[kept[k]]]]

RECURSIVE ConcatBatches(_, _)
\* processDocuments: results.push(...result.value) for the batches from..to
ConcatBatches(from, to) ==
  IF from > to THEN <<>> ELSE bres[from] \o ConcatBatches(from + 1, to)

\* Mutant: one attempt more
LoopOneMore(a) == a <= cfg.maxRetries + 1

\* processDocument: the for loop's condition
LoopContinues(a) == a <= cfg.maxRetries

\* Mutant: the loop over the batches ends after the first group
MoreBatchesNever(i) == FALSE

\* processDocuments: the for loop's condition i < batches.length
MoreBatches(i) == i < Len(Batches)

\* Mutant: the first settled batch promise ends the wait
AnyBatchSettled(bs) == \E b \in bs : bdone[b]

\* processDocuments: await Promise.allSettled(batchPromises) has resolved
AllBatchesSettled(bs) == \A b \in bs : bdone[b]

\* Mutant: the first settled worker promise ends the wait
AnyWorkerSettled(group) == \E d \in Range(group) : wst[d] = "done"

\* processBatch: await Promise.allSettled(workerPromises) has resolved
AllWorkersSettled(group) == \A d \in Range(group) : wst[d] = "done"

\* Mutant: every document is counted as failed
FailedCountTotal(total, processed) == total

\* execute: failedDocuments: documents.length - results.length
FailedCount(total, processed) == total - processed

----------------------------------------------------------------------------
\* ProcessJobUseCase.execute

Cfgs == [maxBatchSize : 1..MaxBatchSize,
         maxConcurrentBatches : 1..MaxConcBatches,
         maxConcurrentWorkers : 1..MaxConcWorkers,
         maxRetries : 0..MaxRetries]

\* The documentIds a job may hold: the ids of the first k uploaded documents,
\* with or without an id that has no record
JobDocumentIds ==
  {(1..k) \cup m : k \in 0..MaxDocs, m \in {{}, {MissingId}}}

\* extractFromDocument: the cases of switch (extractionType)
SupportedTypes == {"schema", "entities", "summary", "keywords"}
\* An extractionConfig.type that is none of the cases
OtherType == "other"

\* Mutant: the switch has no default case
SupportedAny(t) == TRUE

\* extractFromDocument: the switch reaches a case that calls the extractor
Supported(t) == t \in SupportedTypes

\* extractFromDocument: extractionConfig.type || "schema"
NewJob(ids) == [status |-> "pending", error |-> "", result |-> <<>>, documentIds |-> ids,
                type |-> "schema"]

StoreIdle ==
  /\ file = <<>>
  /\ lock = FALSE
  /\ op = <<>>
  /\ spc = <<>>
  /\ sread = <<>>
  /\ waited = <<>>
  /\ sout = <<>>
  /\ backup = <<>>
  /\ reads = <<>>
  /\ rpc = ""

OutIdle ==
  /\ oin = <<>>
  /\ oshard = 0
  /\ ofiles = <<>>
  /\ ometa = <<>>
  /\ ostream = <<>>
  /\ owritten = 0
  /\ orotated = {}
  /\ ocomp = FALSE
  /\ oret = <<>>

ChunkIdle ==
  /\ content = <<>>
  /\ maxChunkSize = 0
  /\ overlap = 0
  /\ chunks = <<>>
  /\ cpc = ""
  /\ cstarts = <<>>

CombIdle ==
  /\ chunkResults = <<>>
  /\ extractionType = ""
  /\ combined = <<>>

EntIdle ==
  /\ ekind = ""
  /\ ent = <<>>
  /\ eclock = 0
  /\ ejson = <<>>
  /\ eback = <<>>
  /\ emarks = 0

CreateIdle ==
  /\ xreq = <<>>
  /\ xpc = ""
  /\ xtext = ""
  /\ extraction = <<>>
  /\ xsaved = <<>>
  /\ xsvc = <<>>
  /\ xerr = ""

LimIdle ==
  /\ lnow = 0
  /\ linterval = 0
  /\ lbatch = <<>>
  /\ lastCall = <<>>
  /\ lst = <<>>
  /\ lwake = <<>>
  /\ lpassed = <<>>

OrderIdle ==
  /\ track = FALSE
  /\ finished = <<>>

UploadIdle ==
  /\ upc = ""
  /\ umem = <<>>
  /\ uadded = {}

MoreIdle ==
  /\ EntIdle
  /\ CreateIdle
  /\ LimIdle
  /\ UploadIdle

RunIdle ==
  /\ documents = <<>>
  /\ wave = 0
  /\ sub = [b \in Docs |-> 0]
  /\ bres = [b \in Docs |-> <<>>]
  /\ bdone = [b \in Docs |-> FALSE]
  /\ wst = [d \in Docs |-> "idle"]
  /\ attempt = [d \in Docs |-> 0]
  /\ wres = [d \in Docs |-> 0]
  /\ results = <<>>
  /\ error = ""
  /\ ret = <<>>
  /\ tries = [d \in Docs |-> 0]
  /\ fails = [d \in Docs |-> 0]
  /\ wrote = 0
  /\ found = FALSE

InitProc ==
  /\ cfg \in Cfgs
  /\ jobRec \in {NewJob(ids) : ids \in JobDocumentIds}
  /\ docRec = [d \in Docs |-> "pending"]
  /\ docRec0 = docRec
  /\ pc = "idle"
  /\ jobMem = jobRec
  /\ output = <<>>
  /\ runs = 0
  /\ RunIdle

\* One call of execute on a new job
InitRun ==
  /\ InitProc
  /\ calls = 1
  /\ faults = 0
  /\ MoreIdle
  /\ StoreIdle
  /\ OutIdle
  /\ ChunkIdle
  /\ CombIdle

Init ==
  /\ InitRun
  /\ OrderIdle

\* JobController.processJob calls execute(jobId)
StartExecute ==
  /\ pc = "idle"
  /\ calls > 0
  /\ calls' = calls - 1
  /\ pc' = "find"
  /\ docRec0' = docRec
  /\ UNCHANGED <<cfg, jobRec, docRec, jobMem, documents, wave, sub, bres, bdone, wst,
                 attempt, wres, results, error, ret, output, runs, tries, fails,
                 wrote, found, faults>>
  /\ UNCHANGED <<storeVars, auxVars>>

\* execute step 1: findById returns the job
FindJob ==
  /\ pc = "find"
  /\ jobMem' = jobRec
  /\ found' = TRUE
  /\ pc' = "markProcessing"
  /\ UNCHANGED <<cfg, jobRec, docRec, documents, wave, sub, bres, bdone, wst,
                 attempt, wres, results, error, ret, output, runs, tries, fails,
                 docRec0, wrote, faults, calls>>
  /\ UNCHANGED <<storeVars, auxVars>>

\* execute step 2: job.markProcessing(); await jobRepository.save(job)
SaveProcessing ==
  /\ pc = "markProcessing"
  /\ jobMem' = Job_markProcessing(jobMem)
  /\ jobRec' = jobMem'
  /\ pc' = "getDocuments"
  /\ UNCHANGED <<cfg, docRec, documents, wave, sub, bres, bdone, wst,
                 attempt, wres, results, error, ret, output, runs, tries, fails,
                 docRec0, wrote, found, faults, calls>>
  /\ UNCHANGED <<storeVars, auxVars>>

\* execute step 3: getDocumentsForJob, and the empty check
GetDocuments ==
  /\ pc = "getDocuments"
  /\ LET docs == getDocumentsForJob(jobMem)
     IN  IF IsEmptyJob(docs)
         THEN /\ error' = NoDocumentsMsg
              /\ pc' = "catch"
              /\ UNCHANGED documents
         ELSE /\ documents' = docs
              /\ pc' = "processDocuments"
              /\ UNCHANGED error
  /\ UNCHANGED <<cfg, jobRec, docRec, jobMem, wave, sub, bres, bdone, wst,
                 attempt, wres, results, ret, output, runs, tries, fails,
                 docRec0, wrote, found, faults, calls>>
  /\ UNCHANGED <<storeVars, auxVars>>

\* Mutant: no worker promise is created
LaunchNone(ds) == wst' = wst

\* The order of completion after document d's worker promise has settled
Ended(d) == IF track THEN Append(finished, d) ELSE finished

\* The worker promises created by workerGroup.map for the given documents
Launch(ds) == wst' = [d \in Docs |-> IF d \in ds THEN "limiter" ELSE wst[d]]

\* processDocuments: createBatches and the first batch group's processBatch calls
StartBatches ==
  /\ pc = "processDocuments"
  /\ wave' = 0
  /\ Launch(FirstWorkers(0))
  /\ pc' = "processing"
  /\ UNCHANGED <<cfg, jobRec, docRec, jobMem, documents, sub, bres, bdone,
                 attempt, wres, results, error, ret, output, runs, tries, fails,
                 docRec0, wrote, found, faults, calls>>
  /\ UNCHANGED <<storeVars, auxVars>>

\* processBatch: await rateLimiter() returns; processDocument starts its first
\* attempt, or the backoff sleep ends and the next attempt starts:
\* document.markProcessing(); save; the extractor call begins
StartAttempt(d) ==
  /\ pc = "processing"
  /\ wst[d] \in {"limiter", "backoff"}
  /\ docRec' = [docRec EXCEPT ![d] = "processing"]
  /\ wst' = [wst EXCEPT ![d] = "extracting"]
  /\ tries' = [tries EXCEPT ![d] = @ + 1]
  /\ UNCHANGED <<cfg, jobRec, pc, jobMem, documents, wave, sub, bres, bdone,
                 attempt, wres, results, error, ret, output, runs, fails,
                 docRec0, wrote, found, faults, calls>>
  /\ UNCHANGED <<storeVars, auxVars>>

\* processDocument: the extractor call returns; document.markCompleted(result);
\* save; return the ProcessingResult
ExtractSucceeds(d) ==
  /\ pc = "processing"
  /\ wst[d] = "extracting"
  /\ Supported(jobMem.type)
  /\ docRec' = [docRec EXCEPT ![d] = "completed"]
  /\ wres' = [wres EXCEPT ![d] = AttemptsReported(attempt[d])]
  /\ wst' = [wst EXCEPT ![d] = "done"]
  /\ UNCHANGED <<cfg, jobRec, pc, jobMem, documents, wave, sub, bres, bdone,
                 attempt, results, error, ret, output, runs, tries, fails,
                 docRec0, wrote, found, faults, calls>>
  /\ finished' = Ended(d)
  /\ UNCHANGED <<storeVars, outVars, chunkVars, combVars, entVars, createVars, limVars,
                 track, uploadVars>>

\* processDocument: the extractor call throws, or extractFromDocument throws
\* "Unsupported extraction type" at the first chunk; catch; backoff and the next
\* attempt, or after the loop document.markFailed(lastError.message); save;
\* return null
ExtractFails(d) ==
  /\ pc = "processing"
  /\ wst[d] = "extracting"
  /\ fails' = [fails EXCEPT ![d] = @ + 1]
  /\ attempt' = [attempt EXCEPT ![d] = @ + 1]
  /\ IF LoopContinues(attempt[d] + 1)
     THEN /\ wst' = [wst EXCEPT ![d] = "backoff"]
          /\ UNCHANGED <<docRec, wres, finished>>
     ELSE /\ docRec' = [docRec EXCEPT ![d] = "failed"]
          /\ finished' = Ended(d)
          /\ wres' = [wres EXCEPT ![d] = 0]
          /\ wst' = [wst EXCEPT ![d] = "done"]
  /\ UNCHANGED <<cfg, jobRec, pc, jobMem, documents, wave, sub, bres, bdone,
                 results, error, ret, output, runs, tries,
                 docRec0, wrote, found, faults, calls>>
  /\ UNCHANGED <<storeVars, outVars, chunkVars, combVars, entVars, createVars, limVars,
                 track, uploadVars>>

\* processBatch: Promise.allSettled(workerPromises) resolves; collect; the next
\* worker group starts, or the batch's promise is fulfilled with its results
SubWaveSettle(b) ==
  /\ pc = "processing"
  /\ b \in BatchGroup(wave)
  /\ ~bdone[b]
  /\ AllWorkersSettled(WorkerGroup(b, sub[b]))
  /\ bres' = [bres EXCEPT ![b] = @ \o Collect(WorkerGroup(b, sub[b]))]
  /\ sub' = [sub EXCEPT ![b] = @ + cfg.maxConcurrentWorkers]
  /\ IF sub[b] + cfg.maxConcurrentWorkers < Len(Batches[b])
     THEN /\ Launch(Range(WorkerGroup(b, sub[b] + cfg.maxConcurrentWorkers)))
          /\ UNCHANGED bdone
     ELSE /\ bdone' = [bdone EXCEPT ![b] = TRUE]
          /\ UNCHANGED wst
  /\ UNCHANGED <<cfg, jobRec, docRec, pc, jobMem, documents, wave,
                 attempt, wres, results, error, ret, output, runs, tries, fails,
                 docRec0, wrote, found, faults, calls>>
  /\ UNCHANGED <<storeVars, auxVars>>

\* processDocuments: Promise.allSettled(batchPromises) resolves; collect;
\* applyBackpressure; the next batch group starts, or processDocuments returns
WaveSettle ==
  /\ pc = "processing"
  /\ AllBatchesSettled(BatchGroup(wave))
  /\ results' = results \o ConcatBatches(wave + 1, Min(wave + cfg.maxConcurrentBatches, Len(Batches)))
  /\ wave' = wave + cfg.maxConcurrentBatches
  /\ IF MoreBatches(wave + cfg.maxConcurrentBatches)
     THEN /\ Launch(FirstWorkers(wave + cfg.maxConcurrentBatches))
          /\ UNCHANGED pc
     ELSE /\ pc' = "writeResults"
          /\ UNCHANGED wst
  /\ UNCHANGED <<cfg, jobRec, docRec, jobMem, documents, sub, bres, bdone,
                 attempt, wres, error, ret, output, runs, tries, fails,
                 docRec0, wrote, found, faults, calls>>
  /\ UNCHANGED <<storeVars, auxVars>>

\* execute step 5: outputService.writeResults(jobId, results)
WriteResults ==
  /\ pc = "writeResults"
  /\ output' = <<[totalRecords |-> Len(results)]>>
  /\ wrote' = wrote + 1
  /\ pc' = "complete"
  /\ UNCHANGED <<cfg, jobRec, docRec, jobMem, documents, wave, sub, bres, bdone, wst,
                 attempt, wres, results, error, ret, runs, tries, fails,
                 docRec0, found, faults, calls>>
  /\ UNCHANGED <<storeVars, auxVars>>

processingResult ==
  [totalDocuments |-> Len(documents),
   processedDocuments |-> Len(results),
   failedDocuments |-> FailedCount(Len(documents), Len(results)),
   outputMetadata |-> output[1]]

\* execute step 6: job.markCompleted(processingResult); save; return
CompleteJob ==
  /\ pc = "complete"
  /\ jobMem' = Job_markCompleted(jobMem, processingResult)
  /\ jobRec' = jobMem'
  /\ ret' = <<processingResult>>
  /\ pc' = "returned"
  /\ UNCHANGED <<cfg, docRec, documents, wave, sub, bres, bdone, wst,
                 attempt, wres, results, error, output, runs, tries, fails,
                 docRec0, wrote, found, faults, calls>>
  /\ UNCHANGED <<storeVars, auxVars>>

\* execute catch: findById; job.markFailed(error.message); save; throw error
CatchFail ==
  /\ pc = "catch"
  /\ jobMem' = Job_markFailed(jobRec, error)
  /\ jobRec' = jobMem'
  /\ pc' = "threw"
  /\ UNCHANGED <<cfg, docRec, documents, wave, sub, bres, bdone, wst,
                 attempt, wres, results, error, ret, output, runs, tries, fails,
                 docRec0, wrote, found, faults, calls>>
  /\ UNCHANGED <<storeVars, auxVars>>

\* The caller has the outcome of execute; the run's locals are gone
Return ==
  /\ pc \in {"returned", "threw"}
  /\ pc' = "idle"
  /\ runs' = runs + 1
  /\ documents' = <<>>
  /\ wave' = 0
  /\ sub' = [b \in Docs |-> 0]
  /\ bres' = [b \in Docs |-> <<>>]
  /\ bdone' = [b \in Docs |-> FALSE]
  /\ wst' = [d \in Docs |-> "idle"]
  /\ attempt' = [d \in Docs |-> 0]
  /\ wres' = [d \in Docs |-> 0]
  /\ results' = <<>>
  /\ error' = ""
  /\ ret' = <<>>
  /\ tries' = [d \in Docs |-> 0]
  /\ fails' = [d \in Docs |-> 0]
  /\ wrote' = 0
  /\ found' = FALSE
  /\ UNCHANGED <<cfg, jobRec, docRec, jobMem, output, docRec0, faults, calls>>
  /\ finished' = <<>>
  /\ UNCHANGED <<storeVars, outVars, chunkVars, combVars, entVars, createVars, limVars,
                 track, uploadVars>>

Next ==
  \/ StartExecute
  \/ FindJob
  \/ SaveProcessing
  \/ GetDocuments
  \/ StartBatches
  \/ \E d \in Docs : StartAttempt(d)
  \/ \E d \in Docs : ExtractSucceeds(d)
  \/ \E d \in Docs : ExtractFails(d)
  \/ \E b \in Docs : SubWaveSettle(b)
  \/ WaveSettle
  \/ WriteResults
  \/ CompleteJob
  \/ CatchFail
  \/ Return

Spec == Init /\ [][Next]_vars

\* What uploadDocuments leaves alone in the state of execute
UploadUnchanged ==
  /\ UNCHANGED <<cfg, docRec, pc, jobMem, documents, wave, sub, bres, bdone, wst,
                 attempt, wres, results, error, ret, output, runs, calls, tries, fails,
                 docRec0, wrote, found, faults>>
  /\ UNCHANGED <<storeVars, outVars, chunkVars, combVars, entVars, createVars, limVars,
                 orderVars>>

\* uploadDocuments: jobRepository.findById(jobId) returns the job
UploadFind ==
  /\ upc = ""
  /\ umem' = <<jobRec>>
  /\ upc' = "documents"
  /\ UNCHANGED <<jobRec, uadded>>
  /\ UploadUnchanged

\* uploadDocuments, one turn of the loop: documentRepository.save(document);
\* job.documentIds.push(savedDocument.id)
UploadDocument ==
  /\ upc = "documents"
  /\ \E d \in Docs \ umem[1].documentIds :
       /\ \A e \in Docs \ umem[1].documentIds : d <= e
       /\ umem' = <<[umem[1] EXCEPT !.documentIds = @ \cup {d}]>>
       /\ uadded' = uadded \cup {d}
  /\ UNCHANGED <<jobRec, upc>>
  /\ UploadUnchanged

\* uploadDocuments after the loop: jobRepository.save(job)
UploadSaveJob ==
  /\ upc = "documents"
  /\ jobRec' = umem[1]
  /\ upc' = "done"
  /\ UNCHANGED <<umem, uadded>>
  /\ UploadUnchanged

NextUpload ==
  \/ Next
  \/ UploadFind
  \/ UploadDocument
  \/ UploadSaveJob

\* One call of execute and one call of uploadDocuments on the same job, whose
\* documentIds hold the ids of documents uploaded before
InitUpload ==
  /\ Init
  /\ \E k \in 0..MaxLiveDocs : jobRec.documentIds = 1..k

SpecUpload == InitUpload /\ [][NextUpload]_vars

\* Spec where every extractor call, timer and record-store operation returns:
\* a step that stays possible is eventually taken
InitLive ==
  /\ Init
  /\ Cardinality(jobRec.documentIds \cap Docs) <= MaxLiveDocs

SpecLive == InitLive /\ [][Next]_vars /\ WF_vars(Next)

\* Spec on jobs of up to MaxLiveDocs documents, with the order in which the
\* worker promises settle recorded
InitOrder ==
  /\ InitRun
  /\ Cardinality(jobRec.documentIds \cap Docs) <= MaxLiveDocs
  /\ track = TRUE
  /\ finished = <<>>

SpecOrder == InitOrder /\ [][Next]_vars

\* Up to MaxRuns calls of execute on the same job, one after the other
InitRerun ==
  /\ InitProc
  /\ calls = MaxRuns
  /\ faults = 0
  /\ MoreIdle
  /\ OrderIdle
  /\ StoreIdle
  /\ OutIdle
  /\ ChunkIdle
  /\ CombIdle

SpecRerun == InitRerun /\ [][Next]_vars

\* One call of execute on a new job of any extraction type
InitType ==
  /\ cfg \in Cfgs
  /\ jobRec \in {[NewJob(ids) EXCEPT !.type = t] :
                  ids \in JobDocumentIds, t \in SupportedTypes \cup {OtherType}}
  /\ docRec = [d \in Docs |-> "pending"]
  /\ docRec0 = docRec
  /\ pc = "idle"
  /\ jobMem = jobRec
  /\ output = <<>>
  /\ runs = 0
  /\ RunIdle
  /\ calls = 1
  /\ faults = 0
  /\ MoreIdle
  /\ OrderIdle
  /\ StoreIdle
  /\ OutIdle
  /\ ChunkIdle
  /\ CombIdle

SpecType == InitType /\ [][Next]_vars

----------------------------------------------------------------------------
\* I/O errors. getAllJobs / getAllDocuments catch every error of a read and
\* return []; a failing fs.writeFile makes save throw; writeResults rethrows.

Fault(at, to, msg) ==
  /\ pc = at
  /\ faults > 0
  /\ faults' = faults - 1
  /\ pc' = to
  /\ error' = msg

\* execute step 1: getAllJobs returns [] on a read error, so findById returns null
FindJobReadError ==
  /\ Fault("find", "catch", JobNotFoundMsg)
  /\ UNCHANGED <<cfg, jobRec, docRec, jobMem, documents, wave, sub, bres, bdone, wst,
                 attempt, wres, results, ret, output, runs, tries, fails,
                 docRec0, wrote, found, calls>>
  /\ UNCHANGED <<storeVars, auxVars>>

\* execute step 2: jobRepository.save throws
SaveProcessingThrows ==
  /\ Fault("markProcessing", "catch", SaveFailedMsg)
  /\ jobMem' = Job_markProcessing(jobMem)
  /\ UNCHANGED <<cfg, jobRec, docRec, documents, wave, sub, bres, bdone, wst,
                 attempt, wres, results, ret, output, runs, tries, fails,
                 docRec0, wrote, found, calls>>
  /\ UNCHANGED <<storeVars, auxVars>>

\* execute step 3: getAllDocuments returns [] on a read error
GetDocumentsReadError ==
  /\ Fault("getDocuments", "catch", NoDocumentsMsg)
  /\ UNCHANGED <<cfg, jobRec, docRec, jobMem, documents, wave, sub, bres, bdone, wst,
                 attempt, wres, results, ret, output, runs, tries, fails,
                 docRec0, wrote, found, calls>>
  /\ UNCHANGED <<storeVars, auxVars>>

\* execute step 5: writeResults throws
WriteResultsThrows ==
  /\ Fault("writeResults", "catch", WriteFailedMsg)
  /\ wrote' = wrote + 1
  /\ UNCHANGED <<cfg, jobRec, docRec, jobMem, documents, wave, sub, bres, bdone, wst,
                 attempt, wres, results, ret, output, runs, tries, fails,
                 docRec0, found, calls>>
  /\ UNCHANGED <<storeVars, auxVars>>

\* execute step 6: jobRepository.save throws
CompleteJobSaveThrows ==
  /\ Fault("complete", "catch", SaveFailedMsg)
  /\ jobMem' = Job_markCompleted(jobMem, processingResult)
  /\ UNCHANGED <<cfg, jobRec, docRec, documents, wave, sub, bres, bdone, wst,
                 attempt, wres, results, ret, output, runs, tries, fails,
                 docRec0, wrote, found, calls>>
  /\ UNCHANGED <<storeVars, auxVars>>

\* execute catch: getAllJobs returns [] on a read error, findById returns null,
\* the job is not marked; throw error
CatchReadError ==
  /\ Fault("catch", "threw", error)
  /\ UNCHANGED <<cfg, jobRec, docRec, jobMem, documents, wave, sub, bres, bdone, wst,
                 attempt, wres, results, ret, output, runs, tries, fails,
                 docRec0, wrote, found, calls>>
  /\ UNCHANGED <<storeVars, auxVars>>

\* execute catch: jobRepository.save throws out of the catch block
CatchSaveThrows ==
  /\ Fault("catch", "threw", SaveFailedMsg)
  /\ jobMem' = Job_markFailed(jobRec, error)
  /\ UNCHANGED <<cfg, jobRec, docRec, documents, wave, sub, bres, bdone, wst,
                 attempt, wres, results, ret, output, runs, tries, fails,
                 docRec0, wrote, found, calls>>
  /\ UNCHANGED <<storeVars, auxVars>>

NextFault ==
  \/ Next
  \/ FindJobReadError
  \/ SaveProcessingThrows
  \/ GetDocumentsReadError
  \/ WriteResultsThrows
  \/ CompleteJobSaveThrows
  \/ CatchReadError
  \/ CatchSaveThrows

\* One call of execute, with up to MaxFaults I/O errors
InitFault ==
  /\ InitProc
  /\ calls = 1
  /\ faults = MaxFaults
  /\ MoreIdle
  /\ OrderIdle
  /\ StoreIdle
  /\ OutIdle
  /\ ChunkIdle
  /\ CombIdle

SpecFault == InitFault /\ [][NextFault]_vars

----------------------------------------------------------------------------
\* The record store: FileSystemJobRepository (data/jobs.json, data/jobs.lock)
\* and FileSystemDocumentRepository (data/documents.json, data/documents.lock).
\* Each caller makes one save, update or delete call; the steps are the awaits
\* of the call.

Colls == {"jobs", "documents"}
Callers == 1..MaxCallers

\* A collection file. kind "array": the text is JSON.stringify of recs;
\* kind "blank": the text is empty or white space; kind "lines": the text is
\* not one JSON value and consists of the lines given, each either a JSON
\* value (ok) or not.
MissingFile == [exists |-> FALSE, kind |-> "array", recs |-> <<>>, lines |-> <<>>]
FileOf(recs) == [exists |-> TRUE, kind |-> "array", recs |-> recs, lines |-> <<>>]
BlankFile == [exists |-> TRUE, kind |-> "blank", recs |-> <<>>, lines |-> <<>>]
LinesFile(ls) == [exists |-> TRUE, kind |-> "lines", recs |-> <<>>, lines |-> ls]

\* The record caller p saves: ids are distinct, one per caller
RecordOf(p) == [id |-> p, val |-> p]

\* A line that is a JSON value, and a line that is not
ValidLine(r) == [ok |-> TRUE, rec |-> r]
InvalidLine == [ok |-> FALSE, rec |-> [id |-> 0, val |-> 0]]

\* A collection file before the calls: missing, an empty array, or an array
\* holding an older record with the id caller 1 saves
InitialFiles == {MissingFile, FileOf(<<>>), FileOf(<<[id |-> 1, val |-> 0]>>)}

\* getAllJobs: lines.filter(line => JSON.parse(line) succeeds)
ValidLines(ls) == SelectSeq(ls, LAMBDA l : l.ok)

\* getAllJobs: JSON.parse("[" + validLines.join(",") + "]")
RecsOfLines(ls) == [k \in 1..Len(ls) |-> ls[k].rec]

\* getAllJobs: the branch that copies the file to <file>.backup.<now>:
\* no line of the file is a JSON value
BackupMade(f) == f.kind = "lines" /\ Len(ValidLines(f.lines)) = 0

\* getAllJobs / getAllDocuments on file f: the array returned, the file and
\* the backup left behind, and the recovery performed
ReadFile(f) ==
  IF ~f.exists
  THEN [recs |-> <<>>, file |-> FileOf(<<>>), backup |-> <<>>, action |-> "init"]
  ELSE IF f.kind = "blank"
  THEN [recs |-> <<>>, file |-> f, backup |-> <<>>, action |-> "none"]
  ELSE IF f.kind = "array"
  THEN [recs |-> f.recs, file |-> f, backup |-> <<>>, action |-> "none"]
  ELSE IF Len(ValidLines(f.lines)) > 0
  THEN [recs |-> RecsOfLines(ValidLines(f.lines)), file |-> f,
        backup |-> IF BackupMade(f) THEN <<f>> ELSE <<>>, action |-> "lines"]
  ELSE [recs |-> <<>>, file |-> FileOf(<<>>),
        backup |-> IF BackupMade(f) THEN <<f>> ELSE <<>>, action |-> "reset"]

\* Mutant: the marker is written without the exclusive flag
MarkerCreatedAlways(c) == TRUE

\* Mutant: both repositories use one lock file
MarkerCreatedShared(c) == \A x \in Colls : ~lock[x]

\* acquireLock: fs.writeFile(lockFile, ..., {flag: "wx"}) succeeds
MarkerCreated(c) == ~lock[c]

\* save: findIndex by id; replace the record at the index, or push
Upsert(recs, r) ==
  IF \E k \in 1..Len(recs) : recs[k].id = r.id
  THEN [k \in 1..Len(recs) |-> IF recs[k].id = r.id THEN r ELSE recs[k]]
  ELSE Append(recs, r)

\* update: jobs[index] = {...jobs[index], ...updates}
Merge(recs, id, v) ==
  [k \in 1..Len(recs) |-> IF recs[k].id = id THEN [recs[k] EXCEPT !.val = v]
                          ELSE recs[k]]

\* delete: jobs.filter(job => job.id !== id)
Remove(recs, id) == SelectSeq(recs, LAMBDA r : r.id # id)

\* Mutant: update and delete do not check that the record exists
NotFoundNever(recs, id) == FALSE

\* update: index === -1; delete: filteredJobs.length === jobs.length
NotFound(recs, id) == \A k \in 1..Len(recs) : recs[k].id # id

ProcIdle ==
  /\ cfg = [maxBatchSize |-> 1, maxConcurrentBatches |-> 1,
            maxConcurrentWorkers |-> 1, maxRetries |-> 0]
  /\ jobRec = NewJob({})
  /\ docRec = [d \in Docs |-> "pending"]
  /\ docRec0 = docRec
  /\ pc = "idle"
  /\ jobMem = jobRec
  /\ output = <<>>
  /\ runs = 0
  /\ calls = 0
  /\ faults = 0
  /\ RunIdle

\* The calls of caller p: save of its own record or, for a caller other than
\* the one that saves the record with id 1, update or delete of that record
CallsOf(p) ==
  {[kind |-> "save", coll |-> c, id |-> p] : c \in Colls}
    \cup (IF p = 1 THEN {} ELSE [kind : {"update", "delete"}, coll : Colls, id : {1}])

InitCallers ==
  /\ MoreIdle
  /\ OrderIdle
  /\ ProcIdle
  /\ OutIdle
  /\ ChunkIdle
  /\ CombIdle
  /\ lock = [c \in Colls |-> FALSE]
  /\ spc = [p \in Callers |-> "acquire"]
  /\ sread = [p \in Callers |-> <<>>]
  /\ waited = [p \in Callers |-> FALSE]
  /\ sout = [p \in Callers |-> ""]
  /\ backup = [c \in Colls |-> <<>>]
  /\ reads = [c \in Colls |-> <<>>]
  /\ rpc = ""

\* Every caller is about to call save on its collection
InitStore ==
  /\ InitCallers
  /\ file \in [Colls -> InitialFiles]
  /\ op \in {o \in [Callers -> UNION {CallsOf(p) : p \in Callers}] :
               \A p \in Callers : o[p] \in CallsOf(p) /\ o[p].kind = "save"}

\* save / update / delete: acquireLock creates the marker
AcquireLock(p) ==
  /\ spc[p] = "acquire"
  /\ MarkerCreated(op[p].coll)
  /\ lock' = [lock EXCEPT ![op[p].coll] = TRUE]
  /\ spc' = [spc EXCEPT ![p] = "read"]
  /\ UNCHANGED <<file, op, sread, waited, sout, backup, reads, rpc>>
  /\ UNCHANGED <<procVars, auxVars>>

\* acquireLock: EEXIST; wait 10 ms and call acquireLock again
AcquireRetry(p) ==
  /\ spc[p] = "acquire"
  /\ ~MarkerCreated(op[p].coll)
  /\ waited' = [waited EXCEPT ![p] = TRUE]
  /\ UNCHANGED <<file, lock, op, spc, sread, sout, backup, reads, rpc>>
  /\ UNCHANGED <<procVars, auxVars>>

\* save / update / delete: getAllJobs / getAllDocuments
GetAll(p) ==
  /\ spc[p] = "read"
  /\ LET c == op[p].coll
         r == ReadFile(file[c])
     IN  /\ file' = [file EXCEPT ![c] = r.file]
         /\ backup' = [backup EXCEPT ![c] = @ \o r.backup]
         /\ sread' = [sread EXCEPT ![p] = r.recs]
  /\ spc' = [spc EXCEPT ![p] = "write"]
  /\ UNCHANGED <<lock, op, waited, sout, reads, rpc>>
  /\ UNCHANGED <<procVars, auxVars>>

\* save: replace or push the record; update: throw when the index is -1, else
\* merge; delete: throw when nothing was filtered out;
\* fs.writeFile(file, JSON.stringify(records))
WriteBack(p) ==
  /\ spc[p] = "write"
  /\ LET c == op[p].coll
         id == op[p].id
     IN  CASE op[p].kind = "save" ->
                /\ file' = [file EXCEPT ![c] = FileOf(Upsert(sread[p], RecordOf(p)))]
                /\ sout' = [sout EXCEPT ![p] = "ok"]
           [] op[p].kind = "update" ->
                IF NotFound(sread[p], id)
                THEN /\ sout' = [sout EXCEPT ![p] = "notfound"]
                     /\ UNCHANGED file
                ELSE /\ file' = [file EXCEPT ![c] = FileOf(Merge(sread[p], id, p))]
                     /\ sout' = [sout EXCEPT ![p] = "ok"]
           [] op[p].kind = "delete" ->
                IF NotFound(sread[p], id)
                THEN /\ sout' = [sout EXCEPT ![p] = "notfound"]
                     /\ UNCHANGED file
                ELSE /\ file' = [file EXCEPT ![c] = FileOf(Remove(sread[p], id))]
                     /\ sout' = [sout EXCEPT ![p] = "ok"]
  /\ spc' = [spc EXCEPT ![p] = "release"]
  /\ UNCHANGED <<lock, op, sread, waited, backup, reads, rpc>>
  /\ UNCHANGED <<procVars, auxVars>>

\* Mutant: the lock is released after the try block only, not in a finally
ReleasesOnSuccess(outcome) == outcome = "ok"

\* save / update / delete: the finally block runs however the try block ended
ReleasesAfter(outcome) == TRUE

\* finally releaseLock unlinks the marker; the call returns or throws
ReleaseLock(p) ==
  /\ spc[p] = "release"
  /\ lock' = IF ReleasesAfter(sout[p]) THEN [lock EXCEPT ![op[p].coll] = FALSE] ELSE lock
  /\ spc' = [spc EXCEPT ![p] = "done"]
  /\ sread' = [sread EXCEPT ![p] = <<>>]
  /\ UNCHANGED <<file, op, waited, sout, backup, reads, rpc>>
  /\ UNCHANGED <<procVars, auxVars>>

NextStore ==
  \/ \E p \in Callers : AcquireLock(p)
  \/ \E p \in Callers : AcquireRetry(p)
  \/ \E p \in Callers : GetAll(p)
  \/ \E p \in Callers : WriteBack(p)
  \/ \E p \in Callers : ReleaseLock(p)

SpecStore == InitStore /\ [][NextStore]_vars

\* Every caller is about to call save, update or delete on a collection; the
\* two collection files start alike
InitWrite ==
  /\ InitCallers
  /\ file \in {[c \in Colls |-> f] : f \in InitialFiles}
  /\ op \in {o \in [Callers -> UNION {CallsOf(p) : p \in Callers}] :
               \A p \in Callers : o[p] \in CallsOf(p)}

SpecWrite == InitWrite /\ [][NextStore]_vars

\* save / update / delete: fs.writeFile of the collection file throws; the
\* catch logs and rethrows
WriteBackThrows(p) ==
  /\ spc[p] = "write"
  /\ op[p].kind = "save" \/ ~NotFound(sread[p], op[p].id)
  /\ sout' = [sout EXCEPT ![p] = "ioerror"]
  /\ spc' = [spc EXCEPT ![p] = "release"]
  /\ UNCHANGED <<file, lock, op, sread, waited, backup, reads, rpc>>
  /\ UNCHANGED <<procVars, auxVars>>

NextStoreFault ==
  \/ NextStore
  \/ \E p \in Callers : WriteBackThrows(p)

\* Every caller is about to call save, update or delete on the Job collection
InitWriteFault ==
  /\ InitWrite
  /\ \A p \in Callers : op[p].coll = "jobs"

\* Calls on one collection where a write of the collection file may fail
SpecWriteFault == InitWriteFault /\ [][NextStoreFault]_vars

----------------------------------------------------------------------------
\* Reads of a collection file that needs recovery: the find operations call getAllJobs /
\* getAllDocuments without the lock.

\* The lines a file that is not one JSON value may hold
FileLines == {ValidLine([id |-> 1, val |-> 1]), ValidLine([id |-> 2, val |-> 2]),
              InvalidLine}

SeqsOf(S, n) == UNION {[1..k -> S] : k \in 0..n}

\* The texts that are not one JSON value: a single line that is a JSON value
\* parses as a whole
LinesFiles ==
  {LinesFile(ls) : ls \in {x \in SeqsOf(FileLines, MaxLines) :
                             /\ Len(x) >= 1
                             /\ ~(Len(x) = 1 /\ x[1].ok)}}

ReadableFiles == InitialFiles \cup {BlankFile} \cup LinesFiles

InitRead ==
  /\ MoreIdle
  /\ OrderIdle
  /\ ProcIdle
  /\ OutIdle
  /\ ChunkIdle
  /\ CombIdle
  /\ file \in [Colls -> ReadableFiles]
  /\ lock = [c \in Colls |-> FALSE]
  /\ op = <<>>
  /\ spc = <<>>
  /\ sread = <<>>
  /\ waited = <<>>
  /\ sout = <<>>
  /\ backup = [c \in Colls |-> <<>>]
  /\ reads = [c \in Colls |-> <<>>]
  /\ rpc = ""

\* findById, findAll, findByStatus, countByStatus: getAllJobs / getAllDocuments
ReadAll(c) ==
  /\ Len(reads[c]) < MaxReads
  /\ LET r == ReadFile(file[c])
     IN  /\ file' = [file EXCEPT ![c] = r.file]
         /\ backup' = [backup EXCEPT ![c] = @ \o r.backup]
         /\ reads' = [reads EXCEPT ![c] =
                        Append(@, [from |-> file[c], recs |-> r.recs,
                                   action |-> r.action,
                                   wrote |-> r.file # file[c] \/ r.backup # <<>>])]
  /\ UNCHANGED <<lock, op, spc, sread, waited, sout, rpc>>
  /\ UNCHANGED <<procVars, auxVars>>

NextRead == \E c \in Colls : ReadAll(c)

SpecRead == InitRead /\ [][NextRead]_vars

\* save / update / delete: inside getAllJobs / getAllDocuments fs.access
\* (other than ENOENT) or fs.readFile throws; the outer catch logs and
\* returns []
GetAllThrows(p) ==
  /\ spc[p] = "read"
  /\ file[op[p].coll].exists
  /\ sread' = [sread EXCEPT ![p] = <<>>]
  /\ spc' = [spc EXCEPT ![p] = "write"]
  /\ UNCHANGED <<file, lock, op, waited, sout, backup, reads, rpc>>
  /\ UNCHANGED <<procVars, auxVars>>

\* fs.writeFile of the collection file is not atomic: what a read without the
\* lock can find while the file is being rewritten is nothing yet, or a
\* beginning of the text in which no line is a JSON value
PartialFiles == {BlankFile, LinesFile(<<InvalidLine>>)}

\* save: fs.writeFile(file, JSON.stringify(records)) has truncated the file
WriteBackBegins(p) ==
  /\ spc[p] = "write"
  /\ op[p].kind = "save"
  /\ \E f \in PartialFiles : file' = [file EXCEPT ![op[p].coll] = f]
  /\ spc' = [spc EXCEPT ![p] = "writing"]
  /\ UNCHANGED <<lock, op, sread, waited, sout, backup, reads, rpc>>
  /\ UNCHANGED <<procVars, auxVars>>

\* save: fs.writeFile has written the whole text
WriteBackEnds(p) ==
  /\ spc[p] = "writing"
  /\ file' = [file EXCEPT ![op[p].coll] = FileOf(Upsert(sread[p], RecordOf(p)))]
  /\ sout' = [sout EXCEPT ![p] = "ok"]
  /\ spc' = [spc EXCEPT ![p] = "release"]
  /\ UNCHANGED <<lock, op, sread, waited, backup, reads, rpc>>
  /\ UNCHANGED <<procVars, auxVars>>

\* The step of the lock-free read that follows fs.access and fs.readFile of
\* file f
AfterRead(f) ==
  IF ~f.exists \/ f.kind \in {"blank", "array"} THEN "done" ELSE "recover"

\* findById / findAll / findByStatus: getAllJobs calls fs.access
ReaderAccess ==
  /\ rpc = ""
  /\ rpc' = IF file["jobs"].exists THEN "read" ELSE "init"
  /\ UNCHANGED <<file, lock, op, spc, sread, waited, sout, backup, reads>>
  /\ UNCHANGED <<procVars, auxVars>>

\* getAllJobs after ENOENT: mkdir, fs.writeFile(file, '[]'), return []
ReaderInit ==
  /\ rpc = "init"
  /\ file' = [file EXCEPT !["jobs"] = FileOf(<<>>)]
  /\ rpc' = "done"
  /\ UNCHANGED <<lock, op, spc, sread, waited, sout, backup, reads>>
  /\ UNCHANGED <<procVars, auxVars>>

\* getAllJobs: fs.readFile; an empty text or one JSON value is returned, any
\* other text is read again line by line
ReaderRead ==
  /\ rpc = "read"
  /\ rpc' = AfterRead(file["jobs"])
  /\ UNCHANGED <<file, lock, op, spc, sread, waited, sout, backup, reads>>
  /\ UNCHANGED <<procVars, auxVars>>

\* getAllJobs: the second fs.readFile, split into lines; the lines that are
\* JSON values are returned, and without any the file is backed up and reset
ReaderRecover ==
  /\ rpc = "recover"
  /\ rpc' = IF file["jobs"].kind = "lines" /\ Len(ValidLines(file["jobs"].lines)) > 0
            THEN "done" ELSE "reset"
  /\ UNCHANGED <<file, lock, op, spc, sread, waited, sout, backup, reads>>
  /\ UNCHANGED <<procVars, auxVars>>

\* getAllJobs: fs.copyFile(file, backup); fs.writeFile(file, '[]'); return []
ReaderReset ==
  /\ rpc = "reset"
  /\ backup' = [backup EXCEPT !["jobs"] = Append(@, file["jobs"])]
  /\ file' = [file EXCEPT !["jobs"] = FileOf(<<>>)]
  /\ rpc' = "done"
  /\ UNCHANGED <<lock, op, spc, sread, waited, sout, reads>>
  /\ UNCHANGED <<procVars, auxVars>>

NextReadRace ==
  \/ \E p \in Callers : AcquireLock(p)
  \/ \E p \in Callers : AcquireRetry(p)
  \/ \E p \in Callers : GetAll(p)
  \/ \E p \in Callers : WriteBackBegins(p)
  \/ \E p \in Callers : WriteBackEnds(p)
  \/ \E p \in Callers : ReleaseLock(p)
  \/ ReaderAccess
  \/ ReaderInit
  \/ ReaderRead
  \/ ReaderRecover
  \/ ReaderReset

\* Every caller is about to call save on the Job collection while one read
\* without the lock is made
InitReadRace ==
  /\ InitCallers
  /\ file \in {[c \in Colls |-> IF c = "jobs" THEN f ELSE MissingFile] :
                f \in InitialFiles}
  /\ op = [p \in Callers |-> [kind |-> "save", coll |-> "jobs", id |-> p]]

\* save calls on the Job collection beside one read without the lock, at the
\* level of the file operations of both
SpecReadRace == InitReadRace /\ [][NextReadRace]_vars

\* A caller whose save has returned calls save again
SaveAgain(p) ==
  /\ spc[p] = "done"
  /\ spc' = [spc EXCEPT ![p] = "acquire"]
  /\ sout' = [sout EXCEPT ![p] = ""]
  /\ waited' = [waited EXCEPT ![p] = FALSE]
  /\ UNCHANGED <<file, lock, op, sread, backup, reads, rpc>>
  /\ UNCHANGED <<procVars, auxVars>>

NextLock ==
  \/ NextStore
  \/ \E p \in Callers : SaveAgain(p)

\* Callers that save to the Job collection again and again. Every file
\* operation of a call returns, and a caller whose marker creation would
\* succeed from some point on gets to make it; nothing makes a caller call
\* again, and the retry timer of a waiting caller is not tied to the moments
\* the marker is absent.
SpecLock ==
  /\ InitReadRace
  /\ [][NextLock]_vars
  /\ \A p \in Callers :
       /\ WF_vars(AcquireLock(p))
       /\ WF_vars(GetAll(p))
       /\ WF_vars(WriteBack(p))
       /\ WF_vars(ReleaseLock(p))

NextSaveFault ==
  \/ NextStore
  \/ \E p \in Callers : GetAllThrows(p)

\* Every caller is about to call save on the Job collection, whose file may
\* need recovery
InitSaveFault ==
  /\ InitCallers
  /\ file \in {[c \in Colls |-> IF c = "jobs" THEN f ELSE MissingFile] :
                f \in ReadableFiles}
  /\ op = [p \in Callers |-> [kind |-> "save", coll |-> "jobs", id |-> p]]

\* save calls on one collection where the read of the collection may fail
SpecSaveFault == InitSaveFault /\ [][NextSaveFault]_vars

----------------------------------------------------------------------------
\* Properties of ProcessJobUseCase

Terminal == {"completed", "failed"}

\* The extractor calls in flight
InFlight == {d \in Docs : wst[d] = "extracting"}

Resolved == Range(documents)
WithStatus(st) == {d \in Resolved : docRec[d] = st}

\* The documents that have an entry in the result list or in a batch's results
InResults ==
  {results[k].documentId : k \in 1..Len(results)}
    \cup UNION {{bres[b][k].documentId : k \in 1..Len(bres[b])} : b \in Docs}

\* A document's worker has returned and every one of its attempts failed
AlwaysFailed(d) == wst[d] = "done" /\ tries[d] > 0 /\ fails[d] = tries[d]

\* C1: during a run of process(jobId) the number of extraction calls in flight
\* never exceeds maxConcurrentBatches * maxConcurrentWorkers.
C1_InFlightBounded ==
  Cardinality(InFlight) <= cfg.maxConcurrentBatches * cfg.maxConcurrentWorkers

\* The bound is reached by a job with more documents than the bound, with two
\* batches running at the same time
C1_Witness ==
  /\ cfg.maxConcurrentBatches >= 2
  /\ Cardinality(InFlight) = cfg.maxConcurrentBatches * cfg.maxConcurrentWorkers
  /\ Len(documents) > Cardinality(InFlight)

\* C2: the persisted status of a job only moves pending -> processing ->
\* completed or failed: a completed or failed job never becomes processing or
\* pending again, and a job becomes completed or failed only from processing.
C2_StatusMonotonic ==
  [][/\ jobRec.status \in Terminal => jobRec'.status \in Terminal
     /\ (jobRec.status \notin Terminal /\ jobRec'.status \in Terminal)
          => jobRec.status = "processing"]_vars

\* C3: when process(jobId) raises an error after the job was found, the job's
\* persisted status is failed and its persisted metadata.error is the message.
C3_FailurePersisted ==
  (pc = "threw" /\ found) =>
    (jobRec.status = "failed" /\ jobRec.error = error)

\* C4: a document whose extraction fails on every attempt ends failed and has
\* no entry in the result list; the run is not aborted: every resolved
\* document ends completed or failed and the job ends completed, the failures
\* showing only in the counts.
C4_FailureAbsorbed ==
  /\ \A d \in Docs : AlwaysFailed(d) => (docRec[d] = "failed" /\ d \notin InResults)
  /\ (\E d \in Docs : tries[d] > 0) => pc \notin {"catch", "threw"}
  /\ pc \in {"writeResults", "complete", "returned"} =>
       \A d \in Resolved : docRec[d] \in Terminal
  /\ pc = "returned" =>
       /\ jobRec.status = "completed"
       /\ jobRec.error = ""
       /\ ret[1].failedDocuments = Cardinality({d \in Resolved : AlwaysFailed(d)})

\* Every document of a job of several documents has failed, and the job has
\* ended completed
C4_Witness ==
  /\ pc = "returned"
  /\ Len(documents) >= 2
  /\ \A d \in Resolved : AlwaysFailed(d)
  /\ jobRec.status = "completed"

\* C5: a job whose documentIds holds an id without a record fails with a
\* not-found or empty-job error and its persisted status becomes failed, also
\* when other referenced documents exist.
C5_MissingDocumentFails ==
  (MissingId \in jobRec.documentIds /\ pc \in {"returned", "threw"}) =>
    /\ pc = "threw"
    /\ error \in {JobNotFoundMsg, NoDocumentsMsg}
    /\ jobRec.status = "failed"

\* C6: when the resolved document set is empty, process(jobId) fails with the
\* empty-job error, the job is persisted failed with the message, no document
\* record is modified, no extractor call is made and no output is written.
C6_EmptyJobFails ==
  getDocumentsForJob(jobRec) = <<>> =>
    /\ pc \notin {"processDocuments", "processing", "writeResults", "complete", "returned"}
    /\ docRec = docRec0
    /\ \A d \in Docs : tries[d] = 0
    /\ wrote = 0 /\ output = <<>>
    /\ pc = "threw" =>
         /\ error = NoDocumentsMsg
         /\ jobRec.status = "failed"
         /\ jobRec.error = NoDocumentsMsg

\* The job references only an id that has no record, and process has failed
C6_Witness ==
  /\ pc = "threw"
  /\ jobRec.documentIds = {MissingId}
  /\ jobRec.status = "failed"

\* C7: on a successful process(jobId) the counts of the summary are those of
\* the resolved documents and their persisted statuses, they add up, and the
\* summary returned is the one persisted as metadata.result.
C7_SummaryCounts ==
  pc = "returned" =>
    /\ ret[1].totalDocuments = Len(getDocumentsForJob(jobRec))
    /\ ret[1].totalDocuments = Cardinality(Resolved)
    /\ ret[1].processedDocuments = Cardinality(WithStatus("completed"))
    /\ ret[1].failedDocuments = Cardinality(WithStatus("failed"))
    /\ ret[1].processedDocuments + ret[1].failedDocuments = ret[1].totalDocuments
    /\ jobRec.result = ret

\* A run that returns with completed and failed documents
C7_Witness ==
  /\ pc = "returned"
  /\ ret[1].processedDocuments >= 1
  /\ ret[1].failedDocuments >= 1

\* C8: a document whose unit of work always fails is attempted exactly
\* maxRetries + 1 times, and never more.
C8_ExactAttempts ==
  \A d \in Docs :
    /\ tries[d] <= cfg.maxRetries + 1
    /\ AlwaysFailed(d) => tries[d] = cfg.maxRetries + 1

\* A document has failed all its attempts, with retries configured, and the
\* run has ended
C8_Witness ==
  /\ pc = "returned"
  /\ cfg.maxRetries >= 1
  /\ \E d \in Resolved : AlwaysFailed(d) /\ tries[d] = cfg.maxRetries + 1

\* C9: a document whose extraction fails k times and then succeeds has a
\* result with attempts = k + 1 and ends completed, and the job ends completed.
C9_AttemptsReported ==
  /\ \A d \in Docs :
       (wst[d] = "done" /\ fails[d] < tries[d]) =>
         /\ wres[d] = fails[d] + 1
         /\ fails[d] <= cfg.maxRetries
         /\ docRec[d] = "completed"
  /\ \A k \in 1..Len(results) :
       results[k].attempts = fails[results[k].documentId] + 1
  /\ pc = "returned" =>
       /\ jobRec.status = "completed"
       /\ \A d \in Resolved :
            fails[d] < tries[d] =>
              \E k \in 1..Len(results) :
                 /\ results[k].documentId = d
                 /\ results[k].attempts = fails[d] + 1

\* Three documents, maxBatchSize 2, maxConcurrentWorkers 2: document 2 fails
\* MaxRetries times and then succeeds
C9_Witness ==
  /\ pc = "returned"
  /\ documents = <<1, 2, 3>>
  /\ cfg.maxBatchSize = 2 /\ cfg.maxConcurrentWorkers = 2
  /\ fails[2] = MaxRetries
  /\ \E k \in 1..Len(results) : results[k] = [documentId |-> 2, attempts |-> MaxRetries + 1]
  /\ \A d \in Resolved : docRec[d] = "completed"
  /\ jobRec.status = "completed"

----------------------------------------------------------------------------
\* Properties of the record store

\* The number of records of recs with the given id
CountId(recs, id) == Cardinality({k \in 1..Len(recs) : recs[k].id = id})

SaversOf(c) == {p \in Callers : op[p].kind = "save" /\ op[p].coll = c}

\* C10: overlapping save calls on one collection, each with a record of a
\* distinct id, leave a collection that holds every one of the records
\* exactly once.
C10_AllSaved ==
  \A c \in Colls :
    (\A p \in SaversOf(c) : spc[p] = "done") =>
      \A p \in SaversOf(c) :
        /\ file[c].exists
        /\ CountId(file[c].recs, RecordOf(p).id) = 1
        /\ \E k \in 1..Len(file[c].recs) : file[c].recs[k] = RecordOf(p)

\* Every caller has saved to the same collection, and one of them found the
\* lock held
C10_Witness ==
  \E c \in Colls :
    /\ SaversOf(c) = Callers
    /\ \A p \in Callers : spc[p] = "done"
    /\ \E p \in Callers : waited[p]
    /\ Len(file[c].recs) = MaxCallers

----------------------------------------------------------------------------
\* LocalOutputService: the output directory of one job. Shard file i is
\* ofiles[i + 1]; a file is the sequence of its lines.

\* The most results a caller hands over: two full shards and one more
MaxResults == 2 * MaxShardSize + 1

\* formatResult(result, "jsonl"): the line JSON.stringify(result)
formatResult(result) == [json |-> result]

\* generateFileName: results_<jobId>_shard_<index padded to 4 digits>
generateFileName(shardIndex) == [shard |-> shardIndex]

\* Mutant: the slice takes one result too many
SliceEndPlusOne(i, shardSize) == i + shardSize + 1

\* createShards: the end of results.slice(i, i + shardSize)
SliceEnd(i, shardSize) == i + shardSize

RECURSIVE createShardsFrom(_, _, _)
\* createShards: the loop from offset i
createShardsFrom(rs, shardSize, i) ==
  IF i < Len(rs)
  THEN <<SubSeq(rs, i + 1, Min(SliceEnd(i, shardSize), Len(rs)))>>
         \o createShardsFrom(rs, shardSize, i + shardSize)
  ELSE <<>>

createShards(rs, shardSize) == createShardsFrom(rs, shardSize, 0)

\* writeShard: shard.map(formatResult).join("\n")
ShardLines(shard) == [k \in 1..Len(shard) |-> formatResult(shard[k])]

\* Mutant: every rotateShard call moves to the next index
RotatedIndexNext(shard, recordCount, shardSize) == shard + 1

\* rotateShard: Math.floor(stream.recordCount / stream.shardSize)
RotatedIndex(shard, recordCount, shardSize) == recordCount \div shardSize

\* fs.createWriteStream(filePath, {flags: "a"}) creates the file when missing
Opened(files, shardIndex) ==
  IF shardIndex + 1 <= Len(files) THEN files ELSE Append(files, <<>>)

InitOutput ==
  /\ MoreIdle
  /\ OrderIdle
  /\ ProcIdle
  /\ StoreIdle
  /\ ChunkIdle
  /\ CombIdle
  /\ oin \in UNION {[1..n -> Docs] : n \in 0..MaxResults}
  /\ oshard \in 1..MaxShardSize
  /\ ofiles = <<>>
  /\ ometa = <<>>
  /\ ostream = <<>>
  /\ owritten = 0
  /\ orotated = {}
  /\ ocomp = TRUE
  /\ oret = <<>>

\* writeResults(jobId, results): createShards; writeShard per shard;
\* metadata.json
WriteResultsBatch ==
  /\ ometa = <<>>
  /\ owritten = 0
  /\ LET shards == createShards(oin, oshard)
         n == IF Len(ofiles) > Len(shards) THEN Len(ofiles) ELSE Len(shards)
     IN  /\ ofiles' = [k \in 1..n |-> IF k <= Len(shards) THEN ShardLines(shards[k])
                                     ELSE ofiles[k]]
         /\ ometa' = [outputFiles |->
                        [k \in 1..Len(shards) |->
                           [fileName |-> generateFileName(k - 1),
                            recordCount |-> Len(shards[k])]],
                      totalRecords |-> Len(oin),
                      totalFiles |-> Len(shards)]
  /\ UNCHANGED <<oin, oshard, ostream, owritten, orotated, ocomp, oret>>
  /\ UNCHANGED <<procVars, storeVars, chunkVars, combVars, moreVars>>

\* writeResult(jobId, result): get or create the stream; write the line;
\* recordCount++; rotateShard when recordCount >= shardSize
WriteResult ==
  /\ ometa = <<>>
  /\ owritten < Len(oin)
  /\ LET st == IF ostream = <<>> THEN [shard |-> 0, recordCount |-> 0] ELSE ostream
         f0 == Opened(ofiles, st.shard)
         f1 == [f0 EXCEPT ![st.shard + 1] = Append(@, formatResult(oin[owritten + 1]))]
         cnt == st.recordCount + 1
         nxt == IF cnt >= oshard THEN RotatedIndex(st.shard, cnt, oshard) ELSE st.shard
     IN  /\ ofiles' = Opened(f1, nxt)
         /\ ostream' = [shard |-> nxt, recordCount |-> cnt]
         /\ orotated' = IF nxt # st.shard
                        THEN orotated \cup {Len(f1[st.shard + 1])}
                        ELSE orotated
  /\ owritten' = owritten + 1
  /\ UNCHANGED <<oin, oshard, ometa, ocomp, oret>>
  /\ UNCHANGED <<procVars, storeVars, chunkVars, combVars, moreVars>>

NextOutput ==
  \/ WriteResultsBatch
  \/ WriteResult

SpecOutput == InitOutput /\ [][NextOutput]_vars

\* generateFileName: the extensions the file name ends with, the last one
\* last: ".jsonl.gz" with compression, ".jsonl" without
FileNameEnd(compression) ==
  IF compression THEN <<"jsonl", "gz">> ELSE <<"jsonl">>

\* scanOutputDirectory: file.endsWith(".jsonl") || file.endsWith(".json") ||
\* file.endsWith(".csv")
Listed(nameEnd) == nameEnd[Len(nameEnd)] \in {"jsonl", "json", "csv"}

RECURSIVE SumCounts(_)
SumCounts(fs) ==
  IF fs = <<>> THEN 0 ELSE fs[1].recordCount + SumCounts(Tail(fs))

\* scanOutputDirectory: the files of the job directory whose names pass the
\* filter, each with the number of its non-blank lines; a missing directory
\* gives the same result as an empty one
scanOutputDirectory(files, compression) ==
  LET idx == [k \in 1..Len(files) |-> k]
      kept == SelectSeq(idx, LAMBDA k : Listed(FileNameEnd(compression)))
      outs == [j \in 1..Len(kept) |->
                 [fileName |-> generateFileName(kept[j] - 1),
                  recordCount |-> Len(files[kept[j]])]]
  IN  [outputFiles |-> outs,
       totalRecords |-> SumCounts(outs),
       totalFiles |-> Len(outs)]

\* getOutputInfo: the metadata writeResults stored, else a directory scan
getOutputInfo ==
  IF ometa # <<>> THEN ometa ELSE scanOutputDirectory(ofiles, ocomp)

\* finalizeOutput(jobId): end and forget the stream; return getOutputInfo
FinalizeOutput ==
  /\ oret = <<>>
  /\ ostream' = <<>>
  /\ oret' = <<getOutputInfo>>
  /\ UNCHANGED <<oin, oshard, ofiles, ometa, owritten, orotated, ocomp>>
  /\ UNCHANGED <<procVars, storeVars, chunkVars, combVars, moreVars>>

\* The writeResult calls made before finalizeOutput
WriteResultThenFinalize ==
  /\ oret = <<>>
  /\ WriteResult

NextFinalize ==
  \/ WriteResultThenFinalize
  \/ FinalizeOutput

SpecFinalize == InitOutput /\ [][NextFinalize]_vars

\* The result lists of repeated writeResults calls
RerunResults == UNION {[1..n -> 1..MaxRerunDocs] : n \in 0..MaxResults}

InitOutputRerun ==
  /\ InitOutput
  /\ oin = <<>>

\* writeResults called again for the same job with any list of results
WriteResultsRerun ==
  /\ \E rs \in RerunResults :
       LET shards == createShards(rs, oshard)
           n == IF Len(ofiles) > Len(shards) THEN Len(ofiles) ELSE Len(shards)
       IN  /\ oin' = rs
           /\ ofiles' = [k \in 1..n |-> IF k <= Len(shards) THEN ShardLines(shards[k])
                                       ELSE ofiles[k]]
           /\ ometa' = [outputFiles |->
                          [k \in 1..Len(shards) |->
                             [fileName |-> generateFileName(k - 1),
                              recordCount |-> Len(shards[k])]],
                        totalRecords |-> Len(rs),
                        totalFiles |-> Len(shards)]
  /\ UNCHANGED <<oshard, ostream, owritten, orotated, ocomp, oret>>
  /\ UNCHANGED <<procVars, storeVars, chunkVars, combVars, moreVars>>

NextOutputRerun == WriteResultsRerun

SpecOutputRerun == InitOutputRerun /\ [][NextOutputRerun]_vars

----------------------------------------------------------------------------
\* Document.chunkContent. A content is a sequence of characters; indices are
\* the source's 0-based ones.

Max(a, b) == IF a > b THEN a ELSE b

\* The characters of a content: an ordinary one, and the two chunkContent
\* looks for
Chars == {"x", ".", "\n"}

\* Iterations of the while loop after which a call is taken not to return
ChunkFuel == 2 * Max(MaxLen, MaxLongLen) + 2

\* String.prototype.lastIndexOf(ch, fromIndex): the last index <= fromIndex
\* (a negative fromIndex counts as 0) holding ch, or -1
lastIndexOf(str, ch, fromIndex) ==
  LET hits == {i \in 0..(Len(str) - 1) : i <= Max(fromIndex, 0) /\ str[i + 1] = ch}
  IN  IF hits = {} THEN -1 ELSE CHOOSE i \in hits : \A j \in hits : j <= i

\* String.prototype.substring(a, b): arguments clamped to 0..length, swapped
\* when a > b
substring(str, a, b) ==
  LET ca == Min(Max(a, 0), Len(str))
      cb == Min(Max(b, 0), Len(str))
  IN  SubSeq(str, Min(ca, cb) + 1, Max(ca, cb))

\* Mutant: a content of exactly maxChunkSize characters is chunked
needsChunkingAtLimit(str, maxSize) == Len(str) >= maxSize

\* Document.needsChunking: getSize() > maxChunkSize
needsChunking(str, maxSize) == Len(str) > maxSize

\* chunkContent: breakPoint > start + maxChunkSize * 0.8
BreakTaken(breakPoint, start, maxSize) == 5 * breakPoint > 5 * start + 4 * maxSize

\* Mutant: the next window starts after the end of this one
NextStartPastEnd(end, ov) == end + 1

\* chunkContent: start = end - overlap
NextStart(end, ov) == end - ov

RECURSIVE chunkLoop(_, _, _, _, _, _, _)
\* chunkContent: the while loop from start, acc the chunks pushed so far and
\* starts the values start had at each push
chunkLoop(str, maxSize, ov, start, acc, starts, fuel) ==
  IF ~(start < Len(str)) THEN [chunks |-> acc, starts |-> starts, returned |-> TRUE]
  ELSE IF fuel = 0 THEN [chunks |-> acc, starts |-> starts, returned |-> FALSE]
  ELSE LET end0 == start + maxSize
           breakPoint == Max(lastIndexOf(str, ".", end0), lastIndexOf(str, "\n", end0))
           end == IF end0 < Len(str) /\ BreakTaken(breakPoint, start, maxSize)
                  THEN breakPoint + 1
                  ELSE end0
       IN  chunkLoop(str, maxSize, ov, NextStart(end, ov),
                     Append(acc, substring(str, start, end)), Append(starts, start),
                     fuel - 1)

chunkContent(str, maxSize, ov) ==
  IF ~needsChunking(str, maxSize)
  THEN [chunks |-> <<str>>, starts |-> <<0>>, returned |-> TRUE]
  ELSE chunkLoop(str, maxSize, ov, 0, <<>>, <<>>, ChunkFuel)

\* A document content and the arguments of chunkContent, 0 <= overlap <
\* maxChunkSize
InitChunk ==
  /\ MoreIdle
  /\ OrderIdle
  /\ ProcIdle
  /\ StoreIdle
  /\ OutIdle
  /\ CombIdle
  /\ content \in UNION {[1..n -> Chars] : n \in 0..MaxLen}
  /\ maxChunkSize \in 1..MaxChunkSize
  /\ overlap \in 0..(maxChunkSize - 1)
  /\ chunks = <<>>
  /\ cstarts = <<>>
  /\ cpc = "call"

\* document.chunkContent(maxChunkSize, overlap)
ChunkContent ==
  /\ cpc = "call"
  /\ LET r == chunkContent(content, maxChunkSize, overlap)
     IN  /\ chunks' = r.chunks
         /\ cstarts' = r.starts
         /\ cpc' = IF r.returned THEN "returned" ELSE "looping"
  /\ UNCHANGED <<content, maxChunkSize, overlap>>
  /\ UNCHANGED <<procVars, storeVars, outVars, combVars, moreVars>>

NextChunk == ChunkContent

\* Longer contents with at most one sentence boundary or newline among
\* ordinary characters
SparseContents ==
  UNION {{[i \in 1..n |-> IF i = k THEN ch ELSE "x"] : k \in 0..n, ch \in {".", "\n"}} :
           n \in 0..MaxLongLen}

InitChunkLong ==
  /\ MoreIdle
  /\ OrderIdle
  /\ ProcIdle
  /\ StoreIdle
  /\ OutIdle
  /\ CombIdle
  /\ content \in SparseContents
  /\ maxChunkSize \in 1..MaxLongChunk
  /\ overlap \in 0..(maxChunkSize - 1)
  /\ chunks = <<>>
  /\ cstarts = <<>>
  /\ cpc = "call"

SpecChunkLong == InitChunkLong /\ [][NextChunk]_vars

SpecChunk == InitChunk /\ [][NextChunk]_vars

----------------------------------------------------------------------------
\* combineChunkResults. A chunk result is the value an extractor call
\* returned: an array (isArray, items), an object with data and confidence
\* (extractWithSchema), or a string (generateSummary; items holds it).

\* Entity or keyword values an extractor may return
Items == {"a", "b"}
\* Field assignments a schema extraction may return
Datas == {{}, {<<"f", 1>>}, {<<"f", 2>>}, {<<"g", 1>>}}

ArrayResult(xs) == [isArray |-> TRUE, items |-> xs, data |-> {}, confidence |-> 0]
ObjectResult(d, c) == [isArray |-> FALSE, items |-> <<>>, data |-> d, confidence |-> c]
StringResult(x) == [isArray |-> FALSE, items |-> <<x>>, data |-> {}, confidence |-> 0]

\* The values the extractor call of each extraction type returns
ResultsOf(t) ==
  IF t \in {"entities", "keywords"}
  THEN {ArrayResult(xs) : xs \in UNION {[1..n -> Items] : n \in 0..MaxItems}}
  ELSE IF t = "schema"
  THEN {ObjectResult(d, c) : d \in Datas, c \in 0..1}
  ELSE {StringResult(x) : x \in Items}

\* Mutant: no chunk result passes the array check
IsArrayNever(r) == FALSE

\* Array.isArray(chunkResult.result)
IsArray(r) == r.isArray

RECURSIVE PushAll(_, _)
\* entities: chunkResults.forEach: allEntities.push(...chunkResult.result)
PushAll(rs, acc) ==
  IF Len(rs) = 0 THEN acc
  ELSE PushAll(Tail(rs), IF IsArray(Head(rs)) THEN acc \o Head(rs).items ELSE acc)

RECURSIVE AddAll(_, _)
\* keywords: allKeywords.add(keyword) for every keyword in order;
\* Array.from(allKeywords) keeps the order of first insertion
AddAll(xs, acc) ==
  IF Len(xs) = 0 THEN acc
  ELSE AddAll(Tail(xs),
              IF \E k \in 1..Len(acc) : acc[k] = Head(xs) THEN acc
              ELSE Append(acc, Head(xs)))

RECURSIVE AssignAll(_, _)
\* schema: Object.assign(combinedData, chunkResult.result.data) per chunk
AssignAll(rs, acc) ==
  IF Len(rs) = 0 THEN acc
  ELSE AssignAll(Tail(rs),
                 {f \in acc : \A g \in Head(rs).data : g[1] # f[1]} \cup Head(rs).data)

RECURSIVE SumConfidence(_)
SumConfidence(rs) ==
  IF Len(rs) = 0 THEN 0 ELSE Head(rs).confidence + SumConfidence(Tail(rs))

\* combineChunkResults(chunkResults, extractionType); the mean confidence is
\* kept as the sum and the number of chunks
combineChunkResults(rs, t) ==
  IF Len(rs) = 1 THEN rs[1]
  ELSE CASE t = "schema" ->
              [isArray |-> FALSE, items |-> <<>>, data |-> AssignAll(rs, {}),
               confidence |-> SumConfidence(rs), chunks |-> Len(rs)]
         [] t = "entities" -> ArrayResult(PushAll(rs, <<>>))
         [] t = "summary" -> rs[1]
         [] t = "keywords" ->
              ArrayResult(AddAll(PushAll(rs, <<>>), <<>>))
         [] OTHER -> rs

\* The results of the chunks of one document and the job's extraction type
InitCombine ==
  /\ MoreIdle
  /\ OrderIdle
  /\ ProcIdle
  /\ StoreIdle
  /\ OutIdle
  /\ ChunkIdle
  /\ extractionType \in SupportedTypes
  /\ chunkResults \in UNION {[1..n -> ResultsOf(extractionType)] : n \in 1..MaxChunks}
  /\ combined = <<>>

\* extractFromDocument: return this.combineChunkResults(results, extractionType)
CombineChunkResults ==
  /\ combined = <<>>
  /\ combined' = combineChunkResults(chunkResults, extractionType)
  /\ UNCHANGED <<chunkResults, extractionType>>
  /\ UNCHANGED <<procVars, storeVars, outVars, chunkVars, moreVars>>

NextCombine == CombineChunkResults

SpecCombine == InitCombine /\ [][NextCombine]_vars

\* The callers between acquireLock and releaseLock on collection c
Holders(c) == {p \in Callers : op[p].coll = c /\ spc[p] \in {"read", "write", "release"}}

\* C11: at most one save/update/delete call on a collection is between
\* acquiring and releasing the collection's lock, and a caller that finds no
\* holder on its own collection acquires the lock whatever is held on the
\* other collection.
C11_OneWriterPerCollection ==
  /\ \A c \in Colls : Cardinality(Holders(c)) <= 1
  /\ \A p \in Callers :
       (spc[p] = "acquire" /\ Holders(op[p].coll) = {}) => ENABLED AcquireLock(p)

\* A caller waits for the lock of a collection that an update or delete
\* holds, while another caller holds the lock of the other collection
C11_Witness ==
  \E p, q, r \in Callers :
    /\ p \in Holders("jobs")
    /\ q \in Holders("documents")
    /\ op[p].kind # "save"
    /\ spc[r] = "acquire"
    /\ waited[r]

\* C12: a read of a file that mixes lines that are JSON values with lines
\* that are not returns exactly the records of the valid lines and leaves a
\* backup holding the original content.
C12_MixedFileBackedUp ==
  \A c \in Colls : \A k \in 1..Len(reads[c]) :
    LET f == reads[c][k].from
    IN  (/\ f.exists
         /\ f.kind = "lines"
         /\ \E i \in 1..Len(f.lines) : f.lines[i].ok
         /\ \E i \in 1..Len(f.lines) : ~f.lines[i].ok)
        => /\ reads[c][k].recs = RecsOfLines(ValidLines(f.lines))
           /\ \E b \in 1..Len(backup[c]) : backup[c][b] = f

\* C13: after a read that performed a recovery action, the next read of the
\* collection returns the same records, performs no recovery action and
\* writes no file.
C13_RecoveryIdempotent ==
  \A c \in Colls : \A k \in 1..Len(reads[c]) :
    (k < Len(reads[c]) /\ reads[c][k].action # "none")
      => /\ reads[c][k + 1].recs = reads[c][k].recs
         /\ reads[c][k + 1].action = "none"
         /\ ~reads[c][k + 1].wrote

\* C20: an update or delete of an id that no record of the collection has
\* ends with the not-found error, and the collection's records are the ones
\* the call read.
C20_NotFoundUnchanged ==
  \A p \in Callers :
    (/\ op[p].kind \in {"update", "delete"}
     /\ spc[p] = "release"
     /\ \A k \in 1..Len(sread[p]) : sread[p][k].id # op[p].id)
    => /\ sout[p] = "notfound"
       /\ file[op[p].coll].exists
       /\ file[op[p].coll].kind = "array"
       /\ file[op[p].coll].recs = sread[p]

\* A delete of an id the collection lacks has thrown while the collection
\* holds another record, after another call had to wait for the lock
C20_Witness ==
  \E p \in Callers :
    /\ op[p].kind = "delete"
    /\ spc[p] = "release"
    /\ sout[p] = "notfound"
    /\ Len(sread[p]) > 0
    /\ \E q \in Callers : waited[q]

\* C16: for a job whose extraction type is none of the supported ones, the
\* unsupported-type error is fatal: no document is tried again after it, and
\* the job does not end completed.
C16_UnsupportedTypeFatal ==
  ~Supported(jobRec.type) =>
    /\ \A d \in Docs : tries[d] <= 1
    /\ jobRec.status # "completed"

RECURSIVE Flatten(_)
Flatten(ss) == IF Len(ss) = 0 THEN <<>> ELSE Head(ss) \o Flatten(Tail(ss))

\* ceil(n / d) for d > 0
CeilDiv(n, d) == (n + d - 1) \div d

\* C14: writeResults with n results and shard size s leaves ceil(n/s) shard
\* files with indices from 0, none larger than s and all but the last of
\* size s, whose lines in index order are the results in input order, and
\* metadata with totalRecords n and totalFiles ceil(n/s); 2s + 1 results
\* give the record counts s, s, 1.
C14_BatchShards ==
  ometa # <<>> =>
    LET n == Len(oin)
        m == CeilDiv(n, oshard)
    IN  /\ Len(ofiles) = m
        /\ \A k \in 1..m : Len(ofiles[k]) <= oshard
        /\ \A k \in 1..m : k < m => Len(ofiles[k]) = oshard
        /\ Flatten(ofiles) = ShardLines(oin)
        /\ ometa.totalRecords = n
        /\ ometa.totalFiles = m
        /\ Len(ometa.outputFiles) = m
        /\ \A k \in 1..m :
             /\ ometa.outputFiles[k].fileName = generateFileName(k - 1)
             /\ ometa.outputFiles[k].recordCount = Len(ofiles[k])
        /\ n = 2 * oshard + 1 =>
             [k \in 1..m |-> Len(ofiles[k])] = <<oshard, oshard, 1>>

\* writeResults has written two full shards of more than one record and a
\* third shard with one record
C14_Witness ==
  /\ ometa # <<>>
  /\ oshard > 1
  /\ Len(oin) = 2 * oshard + 1
  /\ Len(ofiles) = 3

C17_ShortContentOneChunk ==
  (cpc # "call" /\ Len(content) <= maxChunkSize) =>
    /\ cpc = "returned"
    /\ chunks = <<content>>

\* chunkContent has returned for a content of exactly maxChunkSize
\* characters, called with a positive overlap
C17_Witness ==
  /\ cpc = "returned"
  /\ Len(content) = maxChunkSize
  /\ overlap > 0
  /\ Len(chunks) = 1

\* C18: for a content longer than maxChunkSize every chunk has at most
\* maxChunkSize characters.
C18_ChunkSizeBounded ==
  (cpc = "returned" /\ Len(content) > maxChunkSize) =>
    \A k \in 1..Len(chunks) : Len(chunks[k]) <= maxChunkSize

RECURSIVE SumLen(_)
SumLen(ss) == IF Len(ss) = 0 THEN 0 ELSE Len(Head(ss)) + SumLen(Tail(ss))

\* C19: for more than one chunk and extraction type entities the combined
\* result is the per-chunk entity lists concatenated in chunk order, its
\* length the sum of their lengths.
C19_EntitiesConcatenated ==
  (combined # <<>> /\ extractionType = "entities" /\ Len(chunkResults) > 1) =>
    LET lists == [k \in 1..Len(chunkResults) |-> chunkResults[k].items]
    IN  /\ combined.isArray
        /\ combined.items = Flatten(lists)
        /\ Len(combined.items) = SumLen(lists)

\* Three chunks were combined, two of them holding the same entity value and
\* one holding none
C19_Witness ==
  /\ combined # <<>>
  /\ extractionType = "entities"
  /\ Len(chunkResults) = 3
  /\ Len(chunkResults[1].items) > 0
  /\ chunkResults[2].items = <<>>
  /\ chunkResults[3].items = chunkResults[1].items
  /\ Len(combined.items) = 2 * Len(chunkResults[1].items)

----------------------------------------------------------------------------
\* Order of the steps of one run

\* C21: writeResults is called at most once in a run, and only when every
\* resolved document's record is completed or failed; a run that throws without
\* having called it leaves no output metadata behind.
C21_OutputAfterAllDocuments ==
  /\ wrote <= 1
  /\ wrote > 0 => \A d \in Resolved : docRec[d] \in Terminal /\ wst[d] = "done"
  /\ (wrote = 0 /\ pc # "idle") => output = <<>>
  /\ pc = "threw" => wrote = 0 /\ output = <<>>

\* The output of a run of several batch groups has been written
C21_Witness ==
  /\ wrote = 1
  /\ output # <<>>
  /\ Len(Batches) > cfg.maxConcurrentBatches
  /\ \E d \in Resolved : docRec[d] = "failed"
  /\ \E d \in Resolved : docRec[d] = "completed"

\* C25: whenever a document's record has been changed by the run, or an
\* attempt (and with it an extractor call) has started, the job's record
\* already has status processing or a later one.
C25_JobProcessingFirst ==
  (\E d \in Docs : docRec[d] # docRec0[d] \/ tries[d] > 0 \/ wst[d] # "idle")
    => /\ jobRec.status # "pending"
       /\ pc = "processing" => jobRec.status = "processing"

\* A first attempt is running while the job's record says processing
C25_Witness ==
  /\ jobRec.status = "processing"
  /\ \E d \in Docs : wst[d] = "extracting" /\ tries[d] = 1 /\ docRec[d] = "processing"
  /\ \A d \in Docs : docRec[d] \notin Terminal

\* The batch groups before offset i, and those after the group at offset i
BatchesBefore(i) == {b \in 1..Len(Batches) : b <= i}
BatchesAfter(i) == {b \in 1..Len(Batches) : b > i + cfg.maxConcurrentBatches}

\* C26: while the batch group at offset wave runs, every document of an
\* earlier group has been attempted and is completed or failed, and no
\* document of a later group has started; every document of a settled batch
\* has been attempted and is completed or failed, whatever happened to the
\* other documents.
C26_WavesSettleBeforeNext ==
  pc = "processing" =>
    /\ \A b \in BatchesBefore(wave) : \A d \in Range(Batches[b]) :
          bdone[b] /\ tries[d] > 0 /\ docRec[d] \in Terminal
    /\ \A b \in BatchesAfter(wave) : \A d \in Range(Batches[b]) :
          wst[d] = "idle" /\ tries[d] = 0 /\ docRec[d] = docRec0[d]
    /\ \A b \in BatchGroup(wave) : bdone[b] =>
          \A d \in Range(Batches[b]) : tries[d] > 0 /\ docRec[d] \in Terminal

\* In the second batch group a document is being attempted; in the first
\* group one batch had a failed document and its sibling batch completed one
C26_Witness ==
  /\ pc = "processing"
  /\ wave > 0
  /\ cfg.maxConcurrentBatches > 1
  /\ \E d \in Resolved : wst[d] = "extracting"
  /\ \E b1, b2 \in BatchesBefore(wave) :
        /\ b1 # b2
        /\ \E d \in Range(Batches[b1]) : docRec[d] = "failed"
        /\ \E d \in Range(Batches[b2]) : docRec[d] = "completed"

\* C22: when every call returns, the run ends; a worker is done only when its
\* document succeeded or its maxRetries + 1 attempts all failed; and when
\* execute returns, every resolved document's record is completed or failed.
C22_RunTerminates ==
  /\ <>(runs = 1)
  /\ [](\A d \in Docs : wst[d] = "done" =>
          \/ docRec[d] = "completed" /\ fails[d] = tries[d] - 1
          \/ docRec[d] = "failed" /\ fails[d] = cfg.maxRetries + 1)
  /\ [](pc = "returned" => \A d \in Resolved : docRec[d] \in Terminal)

\* execute has returned after one document succeeded on a retry and another
\* used up its attempts
C22_Witness ==
  /\ pc = "returned"
  /\ \E d \in Resolved : docRec[d] = "completed" /\ tries[d] > 1
  /\ \E d \in Resolved : docRec[d] = "failed" /\ fails[d] = cfg.maxRetries + 1

----------------------------------------------------------------------------
\* Job and ExtractionSchema: constructor, mark methods, toJSON, fromJSON.
\* A property of an object is <<>> when it is undefined and <<v>> when it has
\* the value v. Timestamps are clock values; 0 stands for the empty string.

MaxClock == 3
MaxMarks == 2

\* Mutant: the constructor always stamps the current time
OrNowAlways(t, now) == <<now>>

\* createdAt || new Date().toISOString()
OrNow(t, now) == IF t = <<>> \/ t[1] = 0 THEN <<now>> ELSE t

\* A destructuring default: used when the property is undefined
Default(v, d) == IF v = <<>> THEN <<d>> ELSE v

NoMetadata == [result |-> <<>>, error |-> <<>>, tag |-> <<>>]

\* new Job({...})
Job(data, now) ==
  [id |-> data.id,
   name |-> data.name,
   extractionConfig |-> data.extractionConfig,
   documentIds |-> Default(data.documentIds, <<>>),
   status |-> Default(data.status, "pending"),
   createdAt |-> OrNow(data.createdAt, now),
   updatedAt |-> OrNow(data.updatedAt, now),
   metadata |-> Default(data.metadata, NoMetadata)]

Job_toJSON(j) ==
  [id |-> j.id,
   name |-> j.name,
   extractionConfig |-> j.extractionConfig,
   documentIds |-> j.documentIds,
   status |-> j.status,
   createdAt |-> j.createdAt,
   updatedAt |-> j.updatedAt,
   metadata |-> j.metadata]

Job_fromJSON(data, now) == Job(data, now)

\* Job.markProcessing, markCompleted, markFailed on the entity object
markProcessing(j, now) ==
  [j EXCEPT !.status = <<"processing">>, !.updatedAt = <<now>>]
markCompleted(j, result, now) ==
  [j EXCEPT !.status = <<"completed">>, !.updatedAt = <<now>>,
            !.metadata = <<[j.metadata[1] EXCEPT !.result = <<result>>]>>]
markFailed(j, msg, now) ==
  [j EXCEPT !.status = <<"failed">>, !.updatedAt = <<now>>,
            !.metadata = <<[j.metadata[1] EXCEPT !.error = <<msg>>]>>]

\* new ExtractionSchema({...})
ExtractionSchema(data, now) ==
  [id |-> data.id,
   name |-> data.name,
   fields |-> Default(data.fields, <<>>),
   createdAt |-> OrNow(data.createdAt, now),
   metadata |-> Default(data.metadata, NoMetadata)]

ExtractionSchema_toJSON(x) ==
  [id |-> x.id,
   name |-> x.name,
   fields |-> x.fields,
   createdAt |-> x.createdAt,
   metadata |-> x.metadata]

ExtractionSchema_fromJSON(data, now) == ExtractionSchema(data, now)

\* Values a caller may pass for a timestamp: none, the empty string, a time
Stamps == {<<>>, <<0>>, <<1>>}
Metadatas == {<<>>, <<NoMetadata>>, <<[NoMetadata EXCEPT !.tag = <<"m">>]>>}
\* Field definitions of a schema
FieldDefs == {<<>>, <<[name |-> "total", type |-> "number", required |-> TRUE]>>}
\* extractionConfig with and without an embedded schema blob
ExtractionConfigs ==
  {<<>>,
   <<[type |-> "entities", schema |-> <<>>]>>,
   <<[type |-> "schema",
      schema |-> <<[id |-> <<"s1">>, name |-> <<"Invoice">>, fields |-> <<FieldDefs>>]>>]>>}

JobDatas ==
  [id : {<<"j1">>},
   name : {<<>>, <<"n">>},
   extractionConfig : ExtractionConfigs,
   documentIds : {<<>>, <<<<>>>>, <<<<"d1", "d2">>>>},
   status : {<<>>, <<"pending">>, <<"completed">>},
   createdAt : Stamps,
   updatedAt : Stamps,
   metadata : Metadatas]

SchemaDatas ==
  [id : {<<"s1">>},
   name : {<<>>, <<"n">>},
   fields : {<<>>} \cup {<<f>> : f \in FieldDefs},
   createdAt : Stamps,
   metadata : Metadatas]

\* The entity has been constructed at time 2
InitEntity ==
  /\ ProcIdle
  /\ StoreIdle
  /\ OutIdle
  /\ ChunkIdle
  /\ CombIdle
  /\ CreateIdle
  /\ LimIdle
  /\ UploadIdle
  /\ OrderIdle
  /\ eclock = 2
  /\ ekind \in {"job", "schema"}
  /\ ent \in IF ekind = "job" THEN {Job(d, 2) : d \in JobDatas}
                             ELSE {ExtractionSchema(d, 2) : d \in SchemaDatas}
  /\ ejson = <<>>
  /\ eback = <<>>
  /\ emarks = 0

\* Time passes
Tick ==
  /\ eclock < MaxClock
  /\ eclock' = eclock + 1
  /\ UNCHANGED <<ekind, ent, ejson, eback, emarks>>
  /\ UNCHANGED <<procVars, storeVars, outVars, chunkVars, combVars, createVars, limVars,
                 orderVars, uploadVars>>

\* A mark method is called on the job before it is serialised
Mark ==
  /\ ekind = "job"
  /\ ejson = <<>>
  /\ emarks < MaxMarks
  /\ emarks' = emarks + 1
  /\ ent' \in {markProcessing(ent, eclock),
               markCompleted(ent, "r", eclock),
               markFailed(ent, "e", eclock)}
  /\ UNCHANGED <<ekind, eclock, ejson, eback>>
  /\ UNCHANGED <<procVars, storeVars, outVars, chunkVars, combVars, createVars, limVars,
                 orderVars, uploadVars>>

ToJSON ==
  /\ ejson = <<>>
  /\ ejson' = <<IF ekind = "job" THEN Job_toJSON(ent) ELSE ExtractionSchema_toJSON(ent)>>
  /\ UNCHANGED <<ekind, ent, eclock, eback, emarks>>
  /\ UNCHANGED <<procVars, storeVars, outVars, chunkVars, combVars, createVars, limVars,
                 orderVars, uploadVars>>

FromJSON ==
  /\ ejson # <<>>
  /\ eback = <<>>
  /\ eback' = <<IF ekind = "job" THEN Job_fromJSON(ejson[1], eclock)
                                ELSE ExtractionSchema_fromJSON(ejson[1], eclock)>>
  /\ UNCHANGED <<ekind, ent, eclock, ejson, emarks>>
  /\ UNCHANGED <<procVars, storeVars, outVars, chunkVars, combVars, createVars, limVars,
                 orderVars, uploadVars>>

NextEntity ==
  \/ Tick
  \/ Mark
  \/ ToJSON
  \/ FromJSON

SpecEntity == InitEntity /\ [][NextEntity]_vars

\* C23: the object fromJSON builds from the result of toJSON has the same
\* value in every property as the object toJSON was called on, for a Job
\* (extractionConfig with its schema blob, documentIds, status, timestamps and
\* metadata included) and for an ExtractionSchema.
C23_RoundTrip ==
  eback # <<>> =>
    /\ eback[1] = ent
    /\ ekind = "job" =>
         /\ eback[1].extractionConfig = ent.extractionConfig
         /\ eback[1].createdAt = ent.createdAt
         /\ eback[1].updatedAt = ent.updatedAt
         /\ eback[1].metadata = ent.metadata

\* A job holding a schema blob, marked failed, is rebuilt at a later time
\* than the one it was last updated at
C23_Witness ==
  /\ eback # <<>>
  /\ ekind = "job"
  /\ ent.status = <<"failed">>
  /\ ent.metadata[1].error = <<"e">>
  /\ ent.extractionConfig # <<>>
  /\ ent.extractionConfig[1].schema # <<>>
  /\ ent.updatedAt[1] < eclock

----------------------------------------------------------------------------
\* CreateExtractionUseCase.execute. The empty string stands for a text or file
\* name that is undefined or empty.

RequiredMsg == "Either text or fileName is required"
TextRequiredMsg == "Extraction text is required"
TypeRequiredMsg == "Extraction type is required"
ReadFailedMsg == "file not found"
\* What processExtraction may return, and the messages it may throw
ServiceResults == {"r1", "r2"}
ServiceErrors == {"Processing failed", "timeout"}

Requests ==
  [text : {"", "t", "u"},
   fileName : {"", "f"},
   extractionType : {<<>>, <<"">>, <<"entities">>}]

\* Mutant: markFailed records the message and leaves the status
Extraction_markFailedKeep(x, msg) == [x EXCEPT !.metadata.error = <<msg>>]

\* new Extraction({ id, text, extractionType, status })
Extraction(id, text, type, status) ==
  [id |-> id, text |-> text, extractionType |-> type, result |-> <<>>,
   status |-> status, metadata |-> [error |-> <<>>, processingTime |-> <<>>]]

Extraction_markCompleted(x, result) ==
  [x EXCEPT !.result = <<result>>, !.status = "completed",
            !.metadata.processingTime = <<"elapsed">>]

Extraction_markFailed(x, msg) ==
  [x EXCEPT !.status = "failed", !.metadata.error = <<msg>>]

InitCreate ==
  /\ ProcIdle
  /\ StoreIdle
  /\ OutIdle
  /\ ChunkIdle
  /\ CombIdle
  /\ EntIdle
  /\ LimIdle
  /\ UploadIdle
  /\ OrderIdle
  /\ xreq \in Requests
  /\ xpc = "start"
  /\ xtext = ""
  /\ extraction = <<>>
  /\ xsaved = <<>>
  /\ xsvc = <<>>
  /\ xerr = ""

CreateUnchanged ==
  UNCHANGED <<procVars, storeVars, outVars, chunkVars, combVars, entVars, limVars,
              orderVars, uploadVars>>

\* execute: the input check, and textContent = text
CheckInput ==
  /\ xpc = "start"
  /\ IF xreq.text = "" /\ xreq.fileName = ""
     THEN /\ xerr' = RequiredMsg
          /\ xpc' = "threw"
          /\ UNCHANGED xtext
     ELSE /\ xtext' = xreq.text
          /\ xpc' = IF xreq.fileName # "" THEN "readFile" ELSE "create"
          /\ UNCHANGED xerr
  /\ UNCHANGED <<xreq, extraction, xsaved, xsvc>>
  /\ CreateUnchanged

\* execute: textContent = await this.storageService.readFile(fileName)
ReadFileReturns ==
  /\ xpc = "readFile"
  /\ xtext' \in {"", "c"}
  /\ xpc' = "create"
  /\ UNCHANGED <<xreq, extraction, xsaved, xsvc, xerr>>
  /\ CreateUnchanged

ReadFileThrows ==
  /\ xpc = "readFile"
  /\ xerr' = ReadFailedMsg
  /\ xpc' = "threw"
  /\ UNCHANGED <<xreq, xtext, extraction, xsaved, xsvc>>
  /\ CreateUnchanged

\* execute: new Extraction({..., status: "processing"}); extraction.validate()
CreateEntity ==
  /\ xpc = "create"
  /\ LET type == IF xreq.extractionType = <<>> THEN "full" ELSE xreq.extractionType[1]
     IN  /\ extraction' = <<Extraction("uuid", xtext, type, "processing")>>
         /\ IF xtext = ""
            THEN xerr' = TextRequiredMsg /\ xpc' = "threw"
            ELSE IF type = ""
                 THEN xerr' = TypeRequiredMsg /\ xpc' = "threw"
                 ELSE xpc' = "process" /\ UNCHANGED xerr
  /\ UNCHANGED <<xreq, xtext, xsaved, xsvc>>
  /\ CreateUnchanged

\* execute: processExtraction returns; extraction.markCompleted(result)
ServiceReturns ==
  /\ xpc = "process"
  /\ \E r \in ServiceResults :
       /\ xsvc' = <<[ok |-> TRUE, value |-> r]>>
       /\ extraction' = <<Extraction_markCompleted(extraction[1], r)>>
  /\ xpc' = "save"
  /\ UNCHANGED <<xreq, xtext, xsaved, xerr>>
  /\ CreateUnchanged

\* execute: processExtraction throws; catch: extraction.markFailed(error.message)
ServiceThrows ==
  /\ xpc = "process"
  /\ \E m \in ServiceErrors :
       /\ xsvc' = <<[ok |-> FALSE, value |-> m]>>
       /\ extraction' = <<Extraction_markFailed(extraction[1], m)>>
  /\ xpc' = "save"
  /\ UNCHANGED <<xreq, xtext, xsaved, xerr>>
  /\ CreateUnchanged

\* execute: await this.extractionRepository.save(extraction); return
SaveExtraction ==
  /\ xpc = "save"
  /\ xsaved' = Append(xsaved, extraction[1])
  /\ xpc' = "returned"
  /\ UNCHANGED <<xreq, xtext, extraction, xsvc, xerr>>
  /\ CreateUnchanged

\* execute: extractionRepository.save throws
SaveExtractionThrows ==
  /\ xpc = "save"
  /\ xerr' = SaveFailedMsg
  /\ xpc' = "threw"
  /\ UNCHANGED <<xreq, xtext, extraction, xsaved, xsvc>>
  /\ CreateUnchanged

NextCreate ==
  \/ CheckInput
  \/ ReadFileReturns
  \/ ReadFileThrows
  \/ CreateEntity
  \/ ServiceReturns
  \/ ServiceThrows
  \/ SaveExtraction
  \/ SaveExtractionThrows

SpecCreate == InitCreate /\ [][NextCreate]_vars

\* C24: no extraction is saved in status processing and at most one is saved;
\* a call that got past validation throws only what the repository's save
\* threw, never the service's error; when it returns, exactly one extraction
\* is saved: completed with the service's result when the service returned,
\* failed with metadata.error the service's message when it threw.
C24_SavedOnceSettled ==
  /\ Len(xsaved) <= 1
  /\ \A k \in 1..Len(xsaved) : xsaved[k].status # "processing"
  /\ (xpc = "threw" /\ xsvc # <<>>) => xerr = SaveFailedMsg /\ xsaved = <<>>
  /\ xpc = "returned" =>
       /\ Len(xsaved) = 1
       /\ xsvc # <<>>
       /\ xsvc[1].ok =>
            /\ xsaved[1].status = "completed"
            /\ xsaved[1].result = <<xsvc[1].value>>
            /\ xsaved[1].metadata.error = <<>>
       /\ ~xsvc[1].ok =>
            /\ xsaved[1].status = "failed"
            /\ xsaved[1].metadata.error = <<xsvc[1].value>>
            /\ xsaved[1].result = <<>>

\* execute returned after the service threw on the content of a file
C24_Witness ==
  /\ xpc = "returned"
  /\ xreq.fileName # ""
  /\ xsvc # <<>>
  /\ ~xsvc[1].ok
  /\ Len(xsaved) = 1
  /\ xsaved[1].status = "failed"

----------------------------------------------------------------------------
\* createRateLimiter, as processBatch uses it: one limiter per processBatch
\* call, passed by the workers of the batch's first worker group. The
\* batches are those of one batch group, started together.

MaxInterval == 2
MaxLimWorkers == 3
MaxLimTime == 3

LimWorkers == 1..MaxLimWorkers
LimBatches == 1..MaxConcBatches

\* processBatch: const rateLimiter = this.createRateLimiter(rateLimitPerSecond)
LimiterOf(w) == lbatch[w]

\* The wave starts at a time at least interval after time 0 (lastCall = 0)
InitLimiter ==
  /\ ProcIdle
  /\ StoreIdle
  /\ OutIdle
  /\ ChunkIdle
  /\ CombIdle
  /\ EntIdle
  /\ CreateIdle
  /\ UploadIdle
  /\ OrderIdle
  /\ linterval \in 1..MaxInterval
  /\ lnow = linterval
  /\ lbatch \in [LimWorkers -> LimBatches]
  /\ lastCall = [b \in LimBatches |-> 0]
  /\ lst = [w \in LimWorkers |-> "call"]
  /\ lwake = [w \in LimWorkers |-> 0]
  /\ lpassed = [w \in LimWorkers |-> 0]

LimUnchanged ==
  UNCHANGED <<procVars, storeVars, outVars, chunkVars, combVars, entVars, createVars,
              orderVars, uploadVars>>

\* The clock advances
LimTick ==
  /\ lnow < linterval + MaxLimTime
  /\ lnow' = lnow + 1
  /\ UNCHANGED <<linterval, lbatch, lastCall, lst, lwake, lpassed>>
  /\ LimUnchanged

\* await rateLimiter(): the limiter runs up to its await; when
\* timeSinceLastCall >= interval it sets lastCall and the worker goes on
LimiterCall(w) ==
  /\ lst[w] = "call"
  /\ LET timeSinceLastCall == lnow - lastCall[LimiterOf(w)]
     IN  IF timeSinceLastCall < linterval
         THEN /\ lst' = [lst EXCEPT ![w] = "sleep"]
              /\ lwake' = [lwake EXCEPT ![w] = lnow + (linterval - timeSinceLastCall)]
              /\ UNCHANGED <<lastCall, lpassed>>
         ELSE /\ lst' = [lst EXCEPT ![w] = "passed"]
              /\ lastCall' = [lastCall EXCEPT ![LimiterOf(w)] = lnow]
              /\ lpassed' = [lpassed EXCEPT ![w] = lnow]
              /\ UNCHANGED lwake
  /\ UNCHANGED <<lnow, linterval, lbatch>>
  /\ LimUnchanged

\* The setTimeout of the limiter fires, at or after its due time;
\* lastCall = Date.now(); the worker goes on to processDocument
LimiterWake(w) ==
  /\ lst[w] = "sleep"
  /\ lnow >= lwake[w]
  /\ lst' = [lst EXCEPT ![w] = "passed"]
  /\ lastCall' = [lastCall EXCEPT ![LimiterOf(w)] = lnow]
  /\ lpassed' = [lpassed EXCEPT ![w] = lnow]
  /\ UNCHANGED <<lnow, linterval, lbatch, lwake>>
  /\ LimUnchanged

NextLimiter ==
  \/ LimTick
  \/ \E w \in LimWorkers : LimiterCall(w)
  \/ \E w \in LimWorkers : LimiterWake(w)

SpecLimiter == InitLimiter /\ [][NextLimiter]_vars

\* C27: any two workers of the job run that have passed the limiter passed it
\* at least interval ms apart.
C27_PassesSpaced ==
  \A v, w \in LimWorkers :
    (v # w /\ lst[v] = "passed" /\ lst[w] = "passed") =>
      \/ lpassed[v] - lpassed[w] >= linterval
      \/ lpassed[w] - lpassed[v] >= linterval

----------------------------------------------------------------------------
\* Order of the result list

IndexOf(s, x) == CHOOSE k \in 1..Len(s) : s[k] = x
ResultIds == [k \in 1..Len(results) |-> results[k].documentId]

\* Documents d and e belong to the same worker group of the same batch
SameWorkerGroup(d, e) ==
  \E b \in 1..Len(Batches) : \E i, j \in 1..Len(Batches[b]) :
    /\ Batches[b][i] = d
    /\ Batches[b][j] = e
    /\ (i - 1) \div cfg.maxConcurrentWorkers = (j - 1) \div cfg.maxConcurrentWorkers

\* C28 as stated: of two results of one worker group, the one listed first
\* belongs to the worker that ended first.
C28_CompletionOrder ==
  \A k, l \in 1..Len(results) :
    (k < l /\ SameWorkerGroup(ResultIds[k], ResultIds[l])) =>
      IndexOf(finished, ResultIds[k]) < IndexOf(finished, ResultIds[l])

\* C28 amended: the result list holds the succeeded documents in the order of
\* the resolved documents, whatever the order in which their workers ended.
C28_InputOrder ==
  /\ ResultIds = SelectSeq(documents, LAMBDA d : d \in Range(ResultIds))
  /\ pc \in {"writeResults", "complete", "returned"} =>
       ResultIds = SelectSeq(documents, LAMBDA d : docRec[d] = "completed")

\* Of two results of one worker group the one listed second ended first
C28_Witness ==
  /\ pc = "returned"
  /\ \E k, l \in 1..Len(results) :
       /\ k < l
       /\ SameWorkerGroup(ResultIds[k], ResultIds[l])
       /\ IndexOf(finished, ResultIds[l]) < IndexOf(finished, ResultIds[k])

----------------------------------------------------------------------------
\* save calls and lock-free reads on the same collection files

NextReadWrite ==
  \/ NextStore
  \/ NextRead

SpecReadWrite == InitStore /\ [][NextReadWrite]_vars

\* C29: a step that changes a collection file is a step of a save, update or
\* delete call that holds the collection's lock; a lock-free read is never
\* such a step.
C29_WritesByLockHolder ==
  [][\A c \in Colls :
       file'[c] # file[c] =>
         /\ reads'[c] = reads[c]
         /\ \E p \in Holders(c) : spc'[p] # spc[p]]_vars

----------------------------------------------------------------------------
\* The lock marker and the calls in progress

\* C30: the lock marker of a collection exists exactly while a save, update
\* or delete on the collection is between acquiring and releasing the lock;
\* a call has read before it writes or throws, and when it has ended, with
\* success, a not-found error or an I/O error, it holds no lock.
C30_LockReleasedOnEveryPath ==
  /\ \A c \in Colls : lock[c] <=> Holders(c) # {}
  /\ \A p \in Callers :
       /\ spc[p] \in {"acquire", "read"} => sout[p] = ""
       /\ spc[p] \in {"release", "done"} => sout[p] \in {"ok", "notfound", "ioerror"}
       /\ spc[p] = "done" => p \notin Holders(op[p].coll)

\* Calls have ended in each of the three ways and no marker is left
C30_Witness ==
  /\ \A c \in Colls : ~lock[c]
  /\ \A p \in Callers : spc[p] = "done"
  /\ \E p, q, r \in Callers :
       /\ sout[p] = "ok"
       /\ sout[q] = "notfound"
       /\ sout[r] = "ioerror"

----------------------------------------------------------------------------
\* Chunks of a content longer than maxChunkSize

\* The index one past the last character of chunk k
ChunkEnd(k) == Max(cstarts[k], 0) + Len(chunks[k])

Chunked == cpc = "returned" /\ Len(content) > maxChunkSize

\* C32: each chunk after the first begins exactly overlap characters before
\* the end of the chunk before it, the last pair included.
C32_ExactOverlap ==
  Chunked =>
    \A k \in 2..Len(chunks) : cstarts[k] = ChunkEnd(k - 1) - overlap

\* C37: the first chunk starts at index 0, the last chunk ends at the end of
\* the content, and no position lies between the end of a chunk and the start
\* of the next, so every position lies in a chunk; each chunk is the content
\* between its start and its end.
C37_ChunksCover ==
  Chunked =>
    /\ Len(chunks) >= 1
    /\ cstarts[1] = 0
    /\ ChunkEnd(Len(chunks)) = Len(content)
    /\ \A k \in 2..Len(chunks) : cstarts[k] <= ChunkEnd(k - 1)
    /\ \A k \in 1..Len(chunks) :
         chunks[k] = SubSeq(content, Max(cstarts[k], 0) + 1, ChunkEnd(k))
    /\ \A i \in 0..(Len(content) - 1) :
         \E k \in 1..Len(chunks) : Max(cstarts[k], 0) <= i /\ i < ChunkEnd(k)

\* A content cut at a sentence boundary into more than two chunks
C37_Witness ==
  /\ Chunked
  /\ Len(chunks) > 2
  /\ overlap > 0
  /\ \E k \in 1..(Len(chunks) - 1) : Len(chunks[k]) < maxChunkSize

\* C38: every call of chunkContent with 0 <= overlap < maxChunkSize returns.
C38_ChunkingTerminates ==
  cpc # "looping"

----------------------------------------------------------------------------
\* Finalised and repeated output

\* C34: after k writeResult calls and finalizeOutput, with compression
\* enabled, no stream of the job is open and the returned metadata counts k
\* records and lists every shard file that holds results with its record
\* count.
C34_FinalizeDescribesOutput ==
  (oret # <<>> /\ ocomp) =>
    /\ ostream = <<>>
    /\ oret[1].totalRecords = owritten
    /\ \A k \in 1..Len(ofiles) :
         Len(ofiles[k]) > 0 =>
           \E j \in 1..Len(oret[1].outputFiles) :
             oret[1].outputFiles[j] =
               [fileName |-> generateFileName(k - 1), recordCount |-> Len(ofiles[k])]

\* C40: after any sequence of writeResults calls the shard files in the job
\* directory are exactly the files the latest metadata lists.
C40_OnlyListedShards ==
  ometa # <<>> =>
    /\ Len(ofiles) = Len(ometa.outputFiles)
    /\ \A k \in 1..Len(ofiles) :
         ometa.outputFiles[k] =
           [fileName |-> generateFileName(k - 1), recordCount |-> Len(ofiles[k])]

----------------------------------------------------------------------------
\* Frame of save

\* C35: the write of save(r) keeps every record with another id that a read of
\* the collection returned before it, also after a read inside save that
\* failed or recovered part of the file.
C35_SaveKeepsOthers ==
  [][\A p \in Callers :
       (spc[p] = "write" /\ spc'[p] = "release" /\ op[p].kind = "save"
          /\ sout'[p] = "ok") =>
         LET before == ReadFile(file[op[p].coll]).recs
             after == ReadFile(file'[op[p].coll]).recs
         IN  \A k \in 1..Len(before) :
               before[k].id # op[p].id =>
                 \E j \in 1..Len(after) : after[j] = before[k]]_vars

\* C36: once every save call and the read without the lock have ended, the
\* record of every completed save is in the collection file.
C36_SavedRecordStays ==
  (rpc = "done" /\ \A p \in Callers : spc[p] = "done") =>
    \A p \in Callers :
      sout[p] = "ok" =>
        /\ file["jobs"].kind = "array"
        /\ \E k \in 1..Len(file["jobs"].recs) : file["jobs"].recs[k] = RecordOf(p)

----------------------------------------------------------------------------
\* uploadDocuments beside execute

\* C33: the persisted documentIds of a job change only while its status is
\* pending, and only by gaining ids.
C33_AppendOnlyWhilePending ==
  [][jobRec'.documentIds # jobRec.documentIds =>
       /\ jobRec.status = "pending"
       /\ jobRec.documentIds \subseteq jobRec'.documentIds]_vars

\* C39: after execute and uploadDocuments on one job have both ended, the
\* persisted job has the status execute wrote last and holds every id
\* uploadDocuments appended.
C39_NoLostUpdate ==
  (upc = "done" /\ pc \in {"returned", "threw"}) =>
    /\ jobRec.status = (IF pc = "returned" THEN "completed" ELSE "failed")
    /\ uadded \subseteq jobRec.documentIds

----------------------------------------------------------------------------
\* Waiting for the lock

\* C31: a caller waiting for the lock eventually creates the marker, as long
\* as every holder releases it.
C31_WaiterAcquires ==
  \A p \in Callers : (spc[p] = "acquire") ~> (spc[p] = "read")

====
